---- MODULE Spec2Model ----
(***************************************************************************)
(* State-machine model of the decision-tree editor                         *)
(* (decision_tree_builder/static/js/editor.js): the in-memory graph        *)
(* (state.nodes, state.edges, state.counters), the port registry kept in   *)
(* the DOM, the selection, the link and drag gestures, the dirty flag and  *)
(* the asynchronous save requests.                                         *)
(*                                                                         *)
(* JavaScript strings are TLA+ strings; the text functions of the editor   *)
(* are computed character by character, as the code computes them.         *)
(* The session modelled is an editing session (document.body carries the   *)
(* class is-editing, so selecting a node renders its properties form).     *)
(***************************************************************************)
EXTENDS Integers, Sequences, FiniteSets, TLC

(***************************************************************************)
(* Strings                                                                 *)
(***************************************************************************)

\* The i-th character of s (1-based), as a one-character string.
Ch(s, i) == SubSeq(s, i, i)

\* s.slice(i - 1, j): the characters i..j of s that exist.
Slice(s, i, j) ==
  IF i > Len(s) \/ j < i THEN "" ELSE SubSeq(s, i, IF j > Len(s) THEN Len(s) ELSE j)

UpperLetters == "ABCDEFGHIJKLMNOPQRSTUVWXYZÁÉÍÓÚÑ"
LowerLetters == "abcdefghijklmnopqrstuvwxyzáéíóúñ"
AsciiLowerDigits == "abcdefghijklmnopqrstuvwxyz0123456789"

\* Position of the one-character string c in s, 0 when absent.
RECURSIVE IndexFrom(_, _, _)
IndexFrom(s, c, i) ==
  IF i > Len(s) THEN 0
  ELSE IF Ch(s, i) = c THEN i
  ELSE IndexFrom(s, c, i + 1)

IndexOf(s, c) == IndexFrom(s, c, 1)

\* String.prototype.toLowerCase / toUpperCase on one character.
LowerChar(c) ==
  LET k == IndexOf(UpperLetters, c) IN IF k = 0 THEN c ELSE Ch(LowerLetters, k)

UpperChar(c) ==
  LET k == IndexOf(LowerLetters, c) IN IF k = 0 THEN c ELSE Ch(UpperLetters, k)

RECURSIVE ToLowerCase(_)
ToLowerCase(s) ==
  IF s = "" THEN "" ELSE LowerChar(Ch(s, 1)) \o ToLowerCase(SubSeq(s, 2, Len(s)))

\* The regular-expression class \s, on the characters the inputs use.
IsSpace(c) == c \in {" ", "\t", "\n", "\r"}

\* The class [a-z0-9_-] of sanitizeId.
IsIdChar(c) == IndexOf(AsciiLowerDigits, c) > 0 \/ c = "_" \/ c = "-"

IsDigit(c) == IndexOf("0123456789", c) > 0

RECURSIVE TrimStart(_)
TrimStart(s) ==
  IF s # "" /\ IsSpace(Ch(s, 1)) THEN TrimStart(SubSeq(s, 2, Len(s))) ELSE s

RECURSIVE TrimEnd(_)
TrimEnd(s) ==
  IF s # "" /\ IsSpace(Ch(s, Len(s))) THEN TrimEnd(SubSeq(s, 1, Len(s) - 1)) ELSE s

\* String.prototype.trim
Trim(s) == TrimEnd(TrimStart(s))

\* Membership of character c in a regular-expression class of the code:
\* "space" is \s, "notid" is [^a-z0-9_-], "underscore" is _, "separator" is [_-].
InClass(class, c) ==
  CASE class = "space" -> IsSpace(c)
    [] class = "notid" -> ~IsIdChar(c)
    [] class = "underscore" -> c = "_"
    [] class = "separator" -> c = "_" \/ c = "-"

\* s.replace(/X+/g, r): every maximal run of characters of class X becomes r.
\* inRun says whether the previous character belonged to a run.
RECURSIVE ReplaceRuns(_, _, _, _)
ReplaceRuns(s, class, r, inRun) ==
  IF s = "" THEN ""
  ELSE LET c == Ch(s, 1)
           rest == SubSeq(s, 2, Len(s))
       IN IF InClass(class, c)
          THEN (IF inRun THEN "" ELSE r) \o ReplaceRuns(rest, class, r, TRUE)
          ELSE c \o ReplaceRuns(rest, class, r, FALSE)

\* s.replace(/^_|_$/g, '')
StripUnderscoreEnds(s) ==
  LET a == IF s # "" /\ Ch(s, 1) = "_" THEN SubSeq(s, 2, Len(s)) ELSE s
  IN IF a # "" /\ Ch(a, Len(a)) = "_" THEN SubSeq(a, 1, Len(a) - 1) ELSE a

\* editor.js sanitizeId
sanitizeId(value) ==
  LET lowered == ToLowerCase(Trim(value))
      replaced == ReplaceRuns(lowered, "notid", "_", FALSE)
      collapsed == ReplaceRuns(replaced, "underscore", "_", FALSE)
      stripped == StripUnderscoreEnds(collapsed)
  IN IF stripped = "" THEN "nodo" ELSE stripped

\* editor.js sanitizePortLabel(value, fallback)
sanitizePortLabel(value, fallback) ==
  LET base == Trim(value) IN IF base = "" THEN fallback ELSE base

\* editor.js portKeyFromLabel: sanitizeId(label || 'salida')
portKeyFromLabel(label) == sanitizeId(IF label = "" THEN "salida" ELSE label)

\* editor.js normaliseAnswer
normaliseAnswer(value) == Trim(value)

\* editor.js normaliseTitleValue: replace(/\s+/g, ' ').trim()
normaliseTitleValue(value) == Trim(ReplaceRuns(value, "space", " ", FALSE))

\* s.split(sep) for a one-character separator: the sequence of the parts.
RECURSIVE SplitAcc(_, _, _)
SplitAcc(s, sep, cur) ==
  IF s = "" THEN <<cur>>
  ELSE IF Ch(s, 1) = sep
       THEN <<cur>> \o SplitAcc(SubSeq(s, 2, Len(s)), sep, "")
       ELSE SplitAcc(SubSeq(s, 2, Len(s)), sep, cur \o Ch(s, 1))

Split(s, sep) == SplitAcc(s, sep, "")

\* parts.join(sep)
RECURSIVE Join(_, _)
Join(parts, sep) ==
  IF parts = <<>> THEN ""
  ELSE IF Len(parts) = 1 THEN parts[1]
  ELSE parts[1] \o sep \o Join(Tail(parts), sep)

\* parts.filter(Boolean): the non-empty strings of q, in order.
RECURSIVE FilterNonEmpty(_)
FilterNonEmpty(q) ==
  IF q = <<>> THEN <<>>
  ELSE (IF Head(q) # "" THEN <<Head(q)>> ELSE <<>>) \o FilterNonEmpty(Tail(q))

Capitalise(part) ==
  IF part = "" THEN "" ELSE UpperChar(Ch(part, 1)) \o SubSeq(part, 2, Len(part))

\* editor.js formatIdAsTitle: split(/[_-]+/), trim, drop empties, capitalise, join(' ')
formatIdAsTitle(identifier) ==
  IF identifier = "" THEN ""
  ELSE LET unified == ReplaceRuns(identifier, "separator", "_", FALSE)
           raw == Split(unified, "_")
           trimmed == [i \in 1..Len(raw) |-> Trim(raw[i])]
           parts == FilterNonEmpty(trimmed)
       IN IF parts = <<>>
          THEN Capitalise(Trim(identifier))
          ELSE Join([i \in 1..Len(parts) |-> Capitalise(parts[i])], " ")

(***************************************************************************)
(* Expected answers                                                        *)
(***************************************************************************)

\* An answer entry is a record [value, description]; an absent description
\* is the empty string.

\* editor.js coerceExpectedAnswers on a list of {value, description} objects:
\* both texts are trimmed and an entry whose value is empty is dropped.
RECURSIVE coerceExpectedAnswers(_)
coerceExpectedAnswers(value) ==
  IF value = <<>> THEN <<>>
  ELSE LET entry == Head(value)
           valueText == Trim(entry.value)
           rest == coerceExpectedAnswers(Tail(value))
       IN IF valueText = "" THEN rest
          ELSE <<[value |-> valueText, description |-> Trim(entry.description)]>> \o rest

\* editor.js serialiseExpectedAnswers
serialiseExpectedAnswers(value) == coerceExpectedAnswers(value)

\* One line of the answers textarea, parsed as parseExpectedAnswersInput does:
\* the empty sequence when the line gives no entry, else one entry.
ParseAnswerLine(rawLine) ==
  LET line == Trim(rawLine)
      cleaned == IF line # "" /\ Ch(line, 1) = "-"
                 THEN Trim(SubSeq(line, 2, Len(line))) ELSE line
      parts == Split(cleaned, ":")
      answer == Trim(parts[1])
      description == Trim(Join(Tail(parts), ":"))
  IN IF line = "" \/ cleaned = "" \/ answer = "" THEN <<>>
     ELSE <<[value |-> answer, description |-> description]>>

RECURSIVE ParseAnswerLines(_)
ParseAnswerLines(lines) ==
  IF lines = <<>> THEN <<>>
  ELSE ParseAnswerLine(Head(lines)) \o ParseAnswerLines(Tail(lines))

\* value.split(/\r?\n/): split at \n and drop a \r that ends a part.
SplitLines(text) ==
  LET parts == Split(text, "\n")
  IN [i \in 1..Len(parts) |->
        IF parts[i] # "" /\ Ch(parts[i], Len(parts[i])) = "\r"
        THEN SubSeq(parts[i], 1, Len(parts[i]) - 1) ELSE parts[i]]

\* editor.js parseExpectedAnswersInput
parseExpectedAnswersInput(value) ==
  serialiseExpectedAnswers(ParseAnswerLines(SplitLines(value)))

(***************************************************************************)
(* Edges, ports and reconciliation                                         *)
(***************************************************************************)

\* state.edges is a Map: here a sequence of edge records in insertion order,
\* with pairwise distinct ids.  An edge is
\* [id, source, target, label, sourcePort, targetPort].

EdgeIds(E) == {E[i].id : i \in 1..Len(E)}

EdgeById(E, id) == E[CHOOSE i \in 1..Len(E) : E[i].id = id]

\* Map.prototype.set(edge.id, edge): replace in place or append.
EdgeSet(E, edge) ==
  IF edge.id \in EdgeIds(E)
  THEN [i \in 1..Len(E) |-> IF E[i].id = edge.id THEN edge ELSE E[i]]
  ELSE Append(E, edge)

\* Map.prototype.delete(id)
EdgeDelete(E, id) == SelectSeq(E, LAMBDA e : e.id # id)

\* editor.js getOutgoingEdges
getOutgoingEdges(E, nodeId) == SelectSeq(E, LAMBDA e : e.source = nodeId)

\* A port id that is kept as it is, seen or not.
SuffixNever(portId, index, seen) == portId

\* refreshNodePorts, question branch: while (seen.has(portId)) portId = portId_(index+1)
RECURSIVE SuffixWhileSeen(_, _, _)
SuffixWhileSeen(portId, index, seen) ==
  IF portId \in seen
  THEN SuffixWhileSeen(portId \o "_" \o ToString(index + 1), index, seen)
  ELSE portId

\* A derivation that gives no port to an answer whose key was seen.
RECURSIVE QuestionPortsSkipSeen(_, _, _)
QuestionPortsSkipSeen(answers, index, seen) ==
  IF index >= Len(answers) THEN <<>>
  ELSE LET label == answers[index + 1].value
           portId == portKeyFromLabel(sanitizePortLabel(label, "salida"))
       IN IF portId \in seen
          THEN QuestionPortsSkipSeen(answers, index + 1, seen)
          ELSE <<[id |-> portId, label |-> label]>>
                 \o QuestionPortsSkipSeen(answers, index + 1, seen \cup {portId})

\* refreshNodePorts, question branch: the forEach over the answers from the
\* 0-based index on, seen being the port ids given so far.
RECURSIVE QuestionPortsFrom(_, _, _)
QuestionPortsFrom(answers, index, seen) ==
  IF index >= Len(answers) THEN <<>>
  ELSE LET label == answers[index + 1].value
           sanitizedLabel == sanitizePortLabel(label, "salida")
           portId == SuffixWhileSeen(portKeyFromLabel(sanitizedLabel), index, seen)
       IN IF sanitizedLabel = ""
          THEN QuestionPortsFrom(answers, index + 1, seen)
          ELSE <<[id |-> portId, label |-> label]>>
                 \o QuestionPortsFrom(answers, index + 1, seen \cup {portId})

\* refreshNodePorts, message branch: the first suffix from 2 on that is free.
RECURSIVE FirstFreeSuffix(_, _, _)
FirstFreeSuffix(portId, suffix, seen) ==
  IF (portId \o "_" \o ToString(suffix)) \in seen
  THEN FirstFreeSuffix(portId, suffix + 1, seen)
  ELSE portId \o "_" \o ToString(suffix)

\* refreshNodePorts, message branch: the forEach over the outgoing edges.
RECURSIVE MessagePortsFrom(_, _, _)
MessagePortsFrom(outgoing, index, seen) ==
  IF index >= Len(outgoing) THEN <<>>
  ELSE LET edge == outgoing[index + 1]
           fallback == "Salida " \o ToString(index + 1)
           label == sanitizePortLabel(edge.label, fallback)
           base == IF edge.sourcePort # "" THEN edge.sourcePort
                   ELSE portKeyFromLabel(label)
           portId == IF base \in seen THEN FirstFreeSuffix(base, 2, seen) ELSE base
       IN <<[id |-> portId, label |-> label]>>
            \o MessagePortsFrom(outgoing, index + 1, seen \cup {portId})

\* editor.js refreshNodePorts: the output-port descriptors (id, label) built
\* for node from its answers (question) or from its outgoing edges in E.
OutputPorts(node, E) ==
  IF node.type = "question"
  THEN LET outputs == QuestionPortsFrom(coerceExpectedAnswers(node.expected_answers), 0, {})
       IN IF outputs = <<>> THEN <<[id |-> "salida", label |-> "Salida"]>> ELSE outputs
  ELSE MessagePortsFrom(getOutgoingEdges(E, node.id), 0, {})

PortIds(portList) == {portList[i].id : i \in 1..Len(portList)}

\* reconcileQuestionEdges: the keys of matchByKey.
AnswerKeys(answers) ==
  {portKeyFromLabel(normaliseAnswer(answers[i].value)) :
     i \in {j \in 1..Len(answers) : normaliseAnswer(answers[j].value) # ""}}

\* reconcileQuestionEdges: matchByKey.get(key), the value of the first answer
\* with that key.
MatchByKey(answers, key) ==
  LET first == CHOOSE i \in 1..Len(answers) :
                 /\ normaliseAnswer(answers[i].value) # ""
                 /\ portKeyFromLabel(normaliseAnswer(answers[i].value)) = key
                 /\ \A j \in 1..(i - 1) :
                      \/ normaliseAnswer(answers[j].value) = ""
                      \/ portKeyFromLabel(normaliseAnswer(answers[j].value)) # key
  IN answers[first].value

\* reconcileQuestionEdges: the key an edge is looked up by.
EdgeKey(edge) == portKeyFromLabel(normaliseAnswer(edge.label))

\* reconcileQuestionEdges: whether the forEach keeps the edge.
ReconcileKeeps(node, edge) ==
  \/ edge.source # node.id
  \/ EdgeKey(edge) \in AnswerKeys(coerceExpectedAnswers(node.expected_answers))

\* A reconciliation that keeps the edges as they are.
ReconcileRebindNothing(node, edge) == edge

\* reconcileQuestionEdges: what the forEach makes of an edge it keeps.
ReconcileRebind(node, edge) ==
  IF edge.source # node.id THEN edge
  ELSE [edge EXCEPT !.label = MatchByKey(coerceExpectedAnswers(node.expected_answers),
                                         EdgeKey(edge)),
                    !.sourcePort = EdgeKey(edge)]

\* A reconciliation that leaves the edges of a node without answers alone.
reconcileUnlessNoAnswers(E, node) ==
  IF node.type # "question" \/ coerceExpectedAnswers(node.expected_answers) = <<>> THEN E
  ELSE LET kept == SelectSeq(E, LAMBDA e : ReconcileKeeps(node, e))
       IN [i \in 1..Len(kept) |-> ReconcileRebind(node, kept[i])]

\* editor.js reconcileQuestionEdges(node): the edge map afterwards.
reconcileQuestionEdges(E, node) ==
  IF node.type # "question" THEN E
  ELSE LET kept == SelectSeq(E, LAMBDA e : ReconcileKeeps(node, e))
       IN [i \in 1..Len(kept) |-> ReconcileRebind(node, kept[i])]

(***************************************************************************)
(* Node ids                                                                *)
(***************************************************************************)

NodeTypes == {"question", "message"}

\* parseInt of a string of digits.
RECURSIVE ParseDigits(_, _)
ParseDigits(s, acc) ==
  IF s = "" THEN acc
  ELSE ParseDigits(SubSeq(s, 2, Len(s)), acc * 10 + (IndexOf("0123456789", Ch(s, 1)) - 1))

\* The maximal run of digits of s from position i on.
RECURSIVE DigitRun(_, _)
DigitRun(s, i) ==
  IF i <= Len(s) /\ IsDigit(Ch(s, i)) THEN Ch(s, i) \o DigitRun(s, i + 1) ELSE ""

\* Whether (question|message)_(\d+), case-insensitive, matches s at position i
\* with the word w.
MatchesAt(s, i, w) ==
  /\ ToLowerCase(Slice(s, i, i + Len(w))) = w \o "_"
  /\ DigitRun(s, i + Len(w) + 1) # ""

\* id.match(/(question|message)_(\d+)/i): the empty sequence when there is no
\* match, else <<[type, number]>> of the leftmost one.
RECURSIVE CounterMatchFrom(_, _)
CounterMatchFrom(id, i) ==
  IF i > Len(id) THEN <<>>
  ELSE IF MatchesAt(id, i, "question")
       THEN <<[type |-> "question", number |-> ParseDigits(DigitRun(id, i + 9), 0)]>>
  ELSE IF MatchesAt(id, i, "message")
       THEN <<[type |-> "message", number |-> ParseDigits(DigitRun(id, i + 8), 0)]>>
  ELSE CounterMatchFrom(id, i + 1)

CounterMatch(id) == CounterMatchFrom(id, 1)

NodeIdFor(type, n) == ToLowerCase(type) \o "_" \o ToString(n)

\* An id generator that takes the first free number.
generateNodeIdFirstFree(type, counter, used) ==
  LET free == {n \in 1..(counter + 1) : (ToLowerCase(type) \o "_" \o ToString(n)) \notin used}
  IN CHOOSE n \in free : \A m \in free : n <= m

\* editor.js generateNodeId: the counter after the increment and the while
\* loop that skips the ids in use.
RECURSIVE SkipUsed(_, _, _)
SkipUsed(type, n, used) ==
  IF NodeIdFor(type, n) \in used THEN SkipUsed(type, n + 1, used) ELSE n

generateNodeId(type, counter, used) == SkipUsed(type, counter + 1, used)

\* editor.js getNodeTypeLabel
getNodeTypeLabel(type) ==
  CASE type = "question" -> "Pregunta"
    [] type = "message" -> "Mensaje"
    [] OTHER -> "Nodo"

(***************************************************************************)
(* Geometry: JavaScript numbers as exact rationals [n, d], d > 0, reduced  *)
(***************************************************************************)

Abs(a) == IF a < 0 THEN -a ELSE a

RECURSIVE Gcd(_, _)
Gcd(a, b) == IF b = 0 THEN a ELSE Gcd(b, a % b)

Rat(n, d) ==
  LET sn == IF d < 0 THEN -n ELSE n
      sd == Abs(d)
      g == Gcd(Abs(sn), sd)
  IN [n |-> sn \div g, d |-> sd \div g]

FromInt(a) == [n |-> a, d |-> 1]
RAdd(a, b) == Rat(a.n * b.d + b.n * a.d, a.d * b.d)
RSub(a, b) == Rat(a.n * b.d - b.n * a.d, a.d * b.d)
RMul(a, b) == Rat(a.n * b.n, a.d * b.d)
RDiv(a, b) == Rat(a.n * b.d, a.d * b.n)
RLess(a, b) == a.n * b.d < b.n * a.d
RMin(a, b) == IF RLess(b, a) THEN b ELSE a
RMax(a, b) == IF RLess(a, b) THEN b ELSE a

\* Math.round: the nearest integer, a half rounding up.
MathRound(a) == (2 * a.n + a.d) \div (2 * a.d)

\* editor.js snap: Math.round(value / step) * step with step = 10
snap(value) == MathRound(RDiv(value, FromInt(10))) * 10

\* drawflow.getBoundingClientRect(): the canvas container's place and size on
\* the screen, fixed during the session.
DrawflowLeft == 200
DrawflowTop == 100
DrawflowWidth == 800
DrawflowHeight == 600

\* A conversion that takes the pan into account and not the scale.
toWorkspaceUnscaled(v, clientX, clientY) ==
  [x |-> RSub(FromInt(clientX - DrawflowLeft), v.translateX),
   y |-> RSub(FromInt(clientY - DrawflowTop), v.translateY)]

\* editor.js toWorkspace, for the view v
toWorkspace(v, clientX, clientY) ==
  [x |-> RDiv(RSub(FromInt(clientX - DrawflowLeft), v.translateX), v.scale),
   y |-> RDiv(RSub(FromInt(clientY - DrawflowTop), v.translateY), v.scale)]

\* Math.abs of a number
RAbs(a) == [n |-> Abs(a.n), d |-> a.d]

\* A point of the workspace at whole coordinates.
PointAt(x, y) == [x |-> FromInt(x), y |-> FromInt(y)]

\* A path whose second control point is displaced the same way as the first.
computePathSameDirection(source, target) ==
  LET dx == RSub(target.x, source.x)
      dy == RSub(target.y, source.y)
      horizontalOffset == RMax(RMul(RAbs(dx), Rat(9, 20)), FromInt(80))
      extra == RMax(FromInt(120), RMul(RAbs(dx), Rat(3, 5)))
      vertical == RMax(FromInt(60), IF RAbs(dy).n # 0 THEN RAbs(dy) ELSE FromInt(40))
      direction == IF ~RLess(dy, FromInt(0)) THEN FromInt(1) ELSE FromInt(-1)
  IN IF RLess(dx, FromInt(0))
     THEN [source |-> source,
           c1 |-> [x |-> RAdd(source.x, extra),
                   y |-> RAdd(source.y, RMul(direction, vertical))],
           c2 |-> [x |-> RSub(target.x, extra),
                   y |-> RAdd(target.y, RMul(direction, vertical))],
           target |-> target]
     ELSE [source |-> source,
           c1 |-> [x |-> RAdd(source.x, horizontalOffset), y |-> source.y],
           c2 |-> [x |-> RSub(target.x, horizontalOffset), y |-> target.y],
           target |-> target]

\* editor.js computeConnectionPath(source, target): the points of the string
\* "M sx sy C c1x c1y, c2x c2y, tx ty" (0.45 is 9/20 and 0.6 is 3/5).
computeConnectionPath(source, target) ==
  LET dx == RSub(target.x, source.x)
      dy == RSub(target.y, source.y)
      horizontalOffset == RMax(RMul(RAbs(dx), Rat(9, 20)), FromInt(80))
      extra == RMax(FromInt(120), RMul(RAbs(dx), Rat(3, 5)))
      vertical == RMax(FromInt(60), IF RAbs(dy).n # 0 THEN RAbs(dy) ELSE FromInt(40))
      direction == IF ~RLess(dy, FromInt(0)) THEN FromInt(1) ELSE FromInt(-1)
  IN IF RLess(dx, FromInt(0))
     THEN [source |-> source,
           c1 |-> [x |-> RAdd(source.x, extra),
                   y |-> RAdd(source.y, RMul(direction, vertical))],
           c2 |-> [x |-> RSub(target.x, extra),
                   y |-> RSub(target.y, RMul(direction, vertical))],
           target |-> target]
     ELSE [source |-> source,
           c1 |-> [x |-> RAdd(source.x, horizontalOffset), y |-> source.y],
           c2 |-> [x |-> RSub(target.x, horizontalOffset), y |-> target.y],
           target |-> target]

\* A conversion of a screen point at fractional coordinates that divides by
\* the scale before it takes the pan away.
toLogicalScaleFirst(v, screen) ==
  [x |-> RSub(RDiv(RSub(screen.x, FromInt(DrawflowLeft)), v.scale), v.translateX),
   y |-> RSub(RDiv(RSub(screen.y, FromInt(DrawflowTop)), v.scale), v.translateY)]

\* editor.js toWorkspace at a screen point of fractional coordinates:
\* (clientX - rect.left - translateX) / scale, and the same for y.
toLogical(v, screen) ==
  [x |-> RDiv(RSub(RSub(screen.x, FromInt(DrawflowLeft)), v.translateX), v.scale),
   y |-> RDiv(RSub(RSub(screen.y, FromInt(DrawflowTop)), v.translateY), v.scale)]

\* editor.js applyTransform: the workspace is drawn under
\* translate(translateX, translateY) scale(scale) from the top left corner of
\* the canvas container, so the logical point p is shown at
\* rect + translate + scale * p.
toScreen(v, p) ==
  [x |-> RAdd(RAdd(FromInt(DrawflowLeft), v.translateX), RMul(v.scale, p.x)),
   y |-> RAdd(RAdd(FromInt(DrawflowTop), v.translateY), RMul(v.scale, p.y))]

(***************************************************************************)
(* Titles and the persisted snapshot                                       *)
(***************************************************************************)

\* The empty object {}.
EmptyObject == [k \in {} |-> ""]

\* Object.keys(o).length
KeyCount(o) == Cardinality(DOMAIN o)

\* metadata.title of a metadata object, "" when absent.
MetadataTitle(metadata) ==
  IF "title" \in DOMAIN metadata THEN metadata["title"] ELSE ""

FirstNonEmpty(a, b) == IF a # "" THEN a ELSE b

\* editor.js deriveInitialTitle
deriveInitialTitle(node) ==
  LET explicit == normaliseTitleValue(node.title)
      metadataTitle == normaliseTitleValue(MetadataTitle(node.metadata))
  IN IF explicit # "" THEN explicit
     ELSE IF metadataTitle # "" THEN metadataTitle
     ELSE FirstNonEmpty(formatIdAsTitle(node.id),
                        FirstNonEmpty(getNodeTypeLabel(node.type), "Nodo"))

\* editor.js getNodeTitle
getNodeTitle(node) ==
  FirstNonEmpty(normaliseTitleValue(node.title),
    FirstNonEmpty(formatIdAsTitle(node.id),
      FirstNonEmpty(getNodeTypeLabel(node.type), "Nodo")))

\* A node of the persisted flow (flowData.nodes): every field the loader
\* reads, an absent text being "", an absent object {} and an absent position
\* the empty sequence.
SnapNode(id, type, position, title, answers) ==
  [id |-> id, type |-> type, position |-> position, title |-> title,
   question |-> "", expected_answers |-> answers,
   message |-> "", action |-> "", severity |-> "",
   metadata |-> EmptyObject, appearance |-> EmptyObject, parameters |-> EmptyObject]

\* An edge of the persisted flow (flowData.edges), absent texts being "".
SnapEdge(id, source, target, label, sourcePort) ==
  [id |-> id, source |-> source, target |-> target, label |-> label,
   source_port |-> sourcePort, target_port |-> ""]

\* initialise: the node object built for one persisted node.
PreparedNode(node) ==
  LET type == IF node.type = "action" THEN "message" ELSE node.type
      parameters == IF node.type = "action" THEN node.parameters ELSE EmptyObject
      metadata == IF type = "message" /\ KeyCount(parameters) > 0
                  THEN ("action_parameters" :> parameters) @@ node.metadata
                  ELSE node.metadata
      base == [id |-> node.id, type |-> type,
               position |-> IF node.position = <<>> THEN [x |-> 120, y |-> 120]
                            ELSE node.position[1],
               metadata |-> metadata, appearance |-> node.appearance,
               title |-> deriveInitialTitle(node)]
  IN IF type = "question"
     THEN base @@ [question |-> node.question,
                   expected_answers |-> serialiseExpectedAnswers(node.expected_answers)]
     ELSE IF type = "message"
     THEN base @@ [message |-> FirstNonEmpty(node.message, node.action),
                   severity |-> node.severity]
     ELSE base

\* initialise: the persisted nodes it keeps (those with an id and a type).
LoadableNodes(snapNodes) == SelectSeq(snapNodes, LAMBDA n : n.id # "" /\ n.type # "")

\* initialise: state.nodes after the nodes.forEach (a later node replaces an
\* earlier one of the same id).
LoadedNodes(snapNodes) ==
  LET kept == LoadableNodes(snapNodes)
      lastOf(id) == CHOOSE i \in 1..Len(kept) :
                      kept[i].id = id /\ \A j \in (i + 1)..Len(kept) : kept[j].id # id
  IN [id \in {kept[i].id : i \in 1..Len(kept)} |-> PreparedNode(kept[lastOf(id)])]

\* initialise: counter recovery, Math.max over the ids that match.
RECURSIVE LoadedCounter(_, _, _)
LoadedCounter(kept, type, acc) ==
  IF kept = <<>> THEN acc
  ELSE LET m == CounterMatch(Head(kept).id)
           next == IF m # <<>> /\ m[1].type = type /\ m[1].number > acc
                   THEN m[1].number ELSE acc
       IN LoadedCounter(Tail(kept), type, next)

\* initialise: the edge object built for one persisted edge.
PreparedEdge(edge) ==
  [id |-> edge.id, source |-> edge.source, target |-> edge.target,
   label |-> edge.label,
   sourcePort |-> IF edge.source_port # "" THEN edge.source_port
                  ELSE IF edge.label # "" THEN portKeyFromLabel(edge.label)
                  ELSE "salida",
   targetPort |-> IF edge.target_port # "" THEN edge.target_port ELSE "input"]

\* initialise: state.edges after the edges.forEach.
RECURSIVE LoadedEdges(_, _)
LoadedEdges(snapEdges, acc) ==
  IF snapEdges = <<>> THEN acc
  ELSE LET edge == Head(snapEdges)
       IN IF edge.id = "" \/ edge.source = "" \/ edge.target = ""
          THEN LoadedEdges(Tail(snapEdges), acc)
          ELSE LoadedEdges(Tail(snapEdges), EdgeSet(acc, PreparedEdge(edge)))

\* initialise: the reconciliation of every question node, in map order.
RECURSIVE ReconcileAll(_, _, _)
ReconcileAll(E, N, order) ==
  IF order = <<>> THEN E
  ELSE ReconcileAll(reconcileQuestionEdges(E, N[Head(order).id]), N, Tail(order))

\* A load that marks the graph dirty when its reconciliation deleted edges.
LoadDirtyWhenPruned(loaded, reconciled) == Len(reconciled) < Len(loaded)

\* initialise: state.isDirty afterwards. It is false at construction and
\* neither the two forEach nor reconcileQuestionEdges, silent or not, calls
\* markDirty.
LoadDirty(loaded, reconciled) == FALSE

\* editor.js initialise: the graph built from the persisted flow.
initialise(snapNodes, snapEdges) ==
  LET N == LoadedNodes(snapNodes)
      kept == LoadableNodes(snapNodes)
      loaded == LoadedEdges(snapEdges, <<>>)
      reconciled == ReconcileAll(loaded, N, kept)
  IN [nodes |-> N,
      edges |-> reconciled,
      counters |-> [t \in NodeTypes |-> LoadedCounter(kept, t, 0)],
      isDirty |-> LoadDirty(loaded, reconciled)]

(***************************************************************************)
(* State                                                                   *)
(***************************************************************************)

VARIABLES
  nodes,            \* state.nodes: node id -> node object
  edges,            \* state.edges: the edge objects in insertion order
  counters,         \* state.counters: node type -> last number issued
  selectedNodeId,   \* state.selectedNodeId (Null when none)
  selectedEdgeId,   \* state.selectedEdgeId (Null when none)
  linking,          \* state.linking: <<>> when null, else <<record>>
  tempPath,         \* state.tempPath: whether the temporary curve exists
  tempCurves,       \* the temporary curves that are in the connection layer
  tempD,            \* the d attribute of state.tempPath: <<>> or <<its points>>
  linkListeners,    \* the pairs of link handlers attached to the document
  isDirty,          \* state.isDirty
  view,             \* state.view: scale, translateX, translateY
  ports,            \* the output ports in the DOM: node id -> <<[id, label]>>
  drags,            \* the node drags whose listeners are attached
  pan,              \* the closure variables of setupPan
  saves,            \* the payloads of the save requests in flight
  flowData,         \* flowData: the loaded flow, then the last payload saved
  acknowledged,     \* whether a save has been acknowledged since the load
  navigation,       \* the timers of pendingFlowNavigation and the click the page left by
  properties,       \* the form in propertiesContent: its node, edge rows, title
  last,             \* the handler that ran last and its outcome
  steps             \* number of events the session may still handle

graphVars == <<nodes, edges, counters>>
selectionVars == <<selectedNodeId, selectedEdgeId, properties>>
linkVars == <<linking, tempPath, tempCurves, tempD, linkListeners>>
gestureVars == <<drags, pan>>
saveVars == <<saves, flowData, acknowledged, navigation>>

vars == <<nodes, edges, counters, selectedNodeId, selectedEdgeId, linking, tempPath,
          tempCurves, tempD, linkListeners, isDirty, view, ports, drags, pan, saves,
          flowData, acknowledged, navigation, properties, last, steps>>

\* null, for the ids (no node or edge has the empty id)
Null == ""

(***************************************************************************)
(* Bounds and inputs                                                       *)
(***************************************************************************)

\* addNode is explored while the counter it reaches is at most MaxCounter.
MaxCounter == 4
\* At most MaxNodes nodes are in the graph.
MaxNodes == 4
\* Pointer ids of the pointer events.
MaxPointers == 2
\* Save requests in flight at once.
MaxPendingSaves == 1
\* Events of a session of any handlers (Spec, SpecBridge).
MaxSteps == 3
\* Events of a session of graph editing (SpecGraph, SpecAnyLoad).
MaxGraphSteps == 3
\* Events of a session of field editing and saving (SpecFields).
MaxFieldSteps == 5
\* The zoom is explored while the denominator of the scale, a fraction in
\* lowest terms, is at most MaxScaleDenominator (two decimals).
MaxScaleDenominator == 100
\* Events of a session of drags, pans and zooms (SpecDrag).
MaxDragSteps == 2
\* Events of a session of link gestures (SpecLink).
MaxLinkSteps == 6
\* events of a session with navigation
MaxNavSteps == 4
\* events of a session of pointer moves
MaxCurveSteps == 3

\* The .project-flow__select buttons and the other data-ensure-clean elements
\* of the page.
FlowButtons == {"flow_a", "flow_b"}
EnsureCleanElements == {"link_projects"}

\* Where the pointer of a link gesture moves to, on the screen: to the right
\* of the ports, under them, and to their left near, level, below and above.
CurvePoints ==
  {[x |-> 800, y |-> 260], [x |-> 600, y |-> 260], [x |-> 540, y |-> 400],
   [x |-> 500, y |-> 260], [x |-> 300, y |-> 500], [x |-> 300, y |-> 120],
   [x |-> 300, y |-> 240]}

PointerIds == 1..MaxPointers

\* Screen points (clientX, clientY) of the pointer events.
ClientPoints == {[x |-> 400, y |-> 300], [x |-> 480, y |-> 260]}

\* Screen points of the pointer events of the drag sessions: 44 by -22 screen
\* pixels lie between the first and the third.
DragPoints == ClientPoints \cup {[x |-> 444, y |-> 278]}

\* Math.random() * 40 - 20 lies in [-20, 20): the sampled pairs of outcomes
\* for the x and the y offset of a new node.
RandomOffsets == {[x |-> -20, y |-> -20], [x |-> 19, y |-> 4]}

\* Texts typed into the answers textarea.
AnswerTexts == {"- Sí\n- Tal vez", "- sí: afirmativo\n- S\n- No", ""}

\* Texts typed as a connection label (properties row or prompt).
LabelTexts == {"Sí", " no : negativo", "Quizá", ""}

\* Texts typed into the title field.
TitleTexts == {" Alta   prioridad ", ""}

(***************************************************************************)
(* The persisted flows a session may start from                            *)
(***************************************************************************)

Answer(v) == [value |-> v, description |-> ""]

SnapNodePool ==
  << SnapNode("question_1", "question", <<[x |-> 120, y |-> 80]>>, "",
              <<Answer("Sí"), Answer("No")>>),
     SnapNode("message_1", "message", <<>>, " Cierre  amable ", <<>>),
     SnapNode("message_3", "message", <<[x |-> 415, y |-> 240]>>, "", <<>>) >>

\* Edges between the nodes of the pool: two answers of the question, an edge
\* whose label is no answer (pruned by the load-time reconciliation), an edge
\* of a message node.
SnapEdgePool ==
  << SnapEdge("e1", "question_1", "message_1", "Sí", "s"),
     SnapEdge("e2", "question_1", "message_3", "No", ""),
     SnapEdge("e3", "question_1", "message_3", "Quizá", "quiza"),
     SnapEdge("e4", "message_1", "message_3", "Fin", "") >>

\* Further persisted edges: one to a node the flow does not hold, one whose
\* label is the first answer in another spelling under another port name, a
\* second edge of the first message whose label gives the key of its first.
SnapEdgePoolAny ==
  SnapEdgePool \o
  << SnapEdge("e5", "message_3", "message_9", "", ""),
     SnapEdge("e6", "question_1", "message_3", "SÍ", "afirmativo"),
     SnapEdge("e7", "message_1", "question_1", "fin", "") >>

\* The subsequences of q, as the sets of kept positions.
SubSeqOf(q, keep) == SelectSeq([i \in 1..Len(q) |-> IF i \in keep THEN <<q[i]>> ELSE <<>>],
                               LAMBDA x : x # <<>>)

Unwrap(q) == [i \in 1..Len(q) |-> q[i][1]]

SeqIds(q) == {q[i].id : i \in 1..Len(q)}

\* The flows a session starts from: the empty flow, and the flow of the pool,
\* whose edges join its nodes and leave distinct ports.
EmptyFlow == [nodes |-> <<>>, edges |-> <<>>]
FullFlow == [nodes |-> SnapNodePool, edges |-> SnapEdgePool]
Snapshots == {EmptyFlow, FullFlow}

\* A flow of one question and one message joined by one edge.
SmallFlow == [nodes |-> SubSeq(SnapNodePool, 1, 2), edges |-> SubSeq(SnapEdgePool, 1, 1)]

\* The flow of the pool without the edge of the answer "No": the question has
\* a free output port.
LinkFlow == [nodes |-> SnapNodePool, edges |-> Unwrap(SubSeqOf(SnapEdgePool, {1, 4}))]

\* The question and the message that is off the grid, joined by one edge.
DragFlow == [nodes |-> Unwrap(SubSeqOf(SnapNodePool, {1, 3})),
             edges |-> Unwrap(SubSeqOf(SnapEdgePool, {2}))]

\* Flows whose edges are any of the persisted edges.
SnapshotsAny ==
  {[nodes |-> SnapNodePool, edges |-> Unwrap(SubSeqOf(SnapEdgePoolAny, keep))] :
     keep \in {{1, 5}, {1, 2, 6}}}

\* The flow in which the first message has two edges of the key "fin".
PortFlow == [nodes |-> SnapNodePool,
             edges |-> Unwrap(SubSeqOf(SnapEdgePoolAny, {1, 4, 7}))]

(***************************************************************************)
(* Rendering and selection helpers                                         *)
(***************************************************************************)

\* editor.js expectedAnswersToText
expectedAnswersToText(value) ==
  LET answers == coerceExpectedAnswers(value)
  IN Join([i \in 1..Len(answers) |->
             IF answers[i].description # ""
             THEN "- " \o answers[i].value \o ": " \o answers[i].description
             ELSE "- " \o answers[i].value], "\n")

\* renderNodes: every node element's ports are rebuilt from the graph.
renderNodes(N, E) == [id \in DOMAIN N |-> OutputPorts(N[id], E)]

\* refreshNodePortsById: the ports of one node element are rebuilt.
refreshNodePortsById(P, N, E, nodeId) ==
  IF nodeId \in DOMAIN N /\ nodeId \in DOMAIN P
  THEN [P EXCEPT ![nodeId] = OutputPorts(N[nodeId], E)]
  ELSE P

\* propertiesContent holding DEFAULT_PROPERTIES_MESSAGE
DefaultProperties == [node |-> Null, edges |-> {}, title |-> "", metadataError |-> FALSE]

\* renderProperties(node): the form closes over the node, shows its title and
\* one row per outgoing edge.
renderProperties(node, E) ==
  [node |-> node.id, edges |-> EdgeIds(getOutgoingEdges(E, node.id)),
   title |-> getNodeTitle(node), metadataError |-> FALSE]

\* selectNode: what propertiesContent shows afterwards (edit mode is on).
selectNodeProperties(nodeId, N, E, keepProperties, current) ==
  IF nodeId # Null /\ nodeId \in DOMAIN N THEN renderProperties(N[nodeId], E)
  ELSE IF keepProperties THEN current
  ELSE DefaultProperties

\* The edge ids some object of the page still refers to.
KnownEdgeIds ==
  EdgeIds(edges) \cup properties.edges \cup {selectedEdgeId}
    \cup UNION {SeqIds(saves[i].edges) : i \in 1..Len(saves)}
    \cup SeqIds(flowData.edges)

\* editor.js generateEdgeId: an id built from the clock and a random number,
\* modelled as the first id "edge_<k>" that nothing refers to.
RECURSIVE FreshEdgeNumber(_, _)
FreshEdgeNumber(k, used) ==
  IF ("edge_" \o ToString(k)) \in used THEN FreshEdgeNumber(k + 1, used) ELSE k

generateEdgeId(used) == "edge_" \o ToString(FreshEdgeNumber(1, used))

\* The node object addNode builds.
NewNode(id, type, position, counterValue) ==
  LET base == [id |-> id, type |-> type, position |-> position,
               metadata |-> EmptyObject, appearance |-> EmptyObject,
               title |-> getNodeTypeLabel(type) \o " " \o ToString(counterValue)]
  IN IF type = "question"
     THEN base @@ [question |-> "",
                   expected_answers |-> serialiseExpectedAnswers(<<Answer("Sí"), Answer("No")>>)]
     ELSE base @@ [message |-> "", severity |-> ""]

\* The pointers that hold a gesture.
BusyPointers ==
  {d.pointerId : d \in drags}
    \cup (IF linking # <<>> THEN {linking[1].pointerId} ELSE {})
    \cup (IF pan.isPanning THEN {pan.pointerId} ELSE {})

\* The id of the next pointer to go down. The handlers only compare pointer
\* ids for equality, so the lowest id that holds no gesture stands for any.
FirstFreePointer ==
  LET free == PointerIds \ BusyPointers
  IN IF free = {} THEN {} ELSE {CHOOSE p \in free : \A q \in free : p <= q}

Done(op, arg, outcome) == [op |-> op, arg |-> arg, outcome |-> outcome]

\* One event of the session: a session handles as many events as its budget.
Budget == steps > 0 /\ navigation.left = <<>> /\ steps' = steps - 1

(***************************************************************************)
(* Nodes: creation, removal, selection                                     *)
(***************************************************************************)

\* editor.js addNode(type), from a palette button; r is the pair of random
\* offsets.
AddNode(type, r) ==
  LET n == generateNodeId(type, counters[type], DOMAIN nodes)
      id == NodeIdFor(type, n)
      center == toWorkspace(view, DrawflowLeft + DrawflowWidth \div 2,
                            DrawflowTop + DrawflowHeight \div 2)
      position == [x |-> snap(RAdd(center.x, FromInt(r.x))),
                   y |-> snap(RAdd(center.y, FromInt(r.y)))]
      node == NewNode(id, type, position, IF n = 0 THEN 1 ELSE n)
      N == (id :> node) @@ nodes
  IN /\ Budget
     /\ n <= MaxCounter
     /\ Cardinality(DOMAIN nodes) < MaxNodes
     /\ nodes' = N
     /\ counters' = [counters EXCEPT ![type] = n]
     /\ ports' = renderNodes(N, edges)
     /\ selectedNodeId' = id
     /\ selectedEdgeId' = Null
     /\ properties' = renderProperties(node, edges)
     /\ isDirty' = TRUE
     /\ last' = Done("addNode", id, type)
     /\ UNCHANGED <<edges, linkVars, view, gestureVars, saveVars>>

\* A removal that forgets the edges that arrive at the node.
EdgesWithoutSource(E, nodeId) == SelectSeq(E, LAMBDA e : e.source # nodeId)

\* removeNode: the edge map after the forEach that deletes the edges of the node.
EdgesWithoutNode(E, nodeId) ==
  SelectSeq(E, LAMBDA e : e.source # nodeId /\ e.target # nodeId)

\* editor.js removeNode(nodeId) for a node of the graph.
removeNode(nodeId) ==
  LET N == [id \in DOMAIN nodes \ {nodeId} |-> nodes[id]]
      E == EdgesWithoutNode(edges, nodeId)
  IN /\ Budget
     /\ nodeId \in DOMAIN nodes
     /\ nodes' = N
     /\ edges' = E
     /\ ports' = renderNodes(N, E)
     /\ drags' = {d \in drags : d.nodeId # nodeId}
     /\ selectedNodeId' = Null
     /\ selectedEdgeId' = Null
     /\ properties' = DefaultProperties
     /\ isDirty' = TRUE
     /\ tempCurves' = 0
     /\ last' = Done("removeNode", nodeId, "removed")
     /\ UNCHANGED <<counters, linking, tempPath, tempD, linkListeners, view, pan, saveVars>>

\* A removal of an edge that leaves the ports of its source node as they are.
removeEdgeStalePorts(edgeId) ==
  IF edgeId \notin EdgeIds(edges)
  THEN /\ Budget
       /\ last' = Done("removeEdge", edgeId, "absent")
       /\ UNCHANGED <<graphVars, selectionVars, linkVars, isDirty, view, ports,
                      gestureVars, saveVars>>
  ELSE LET E == EdgeDelete(edges, edgeId)
       IN /\ Budget
          /\ edges' = E
          /\ selectedEdgeId' = IF selectedEdgeId = edgeId THEN Null ELSE selectedEdgeId
          /\ isDirty' = TRUE
          /\ properties' = IF selectedNodeId # Null /\ selectedNodeId \in DOMAIN nodes
                           THEN renderProperties(nodes[selectedNodeId], E)
                           ELSE properties
          /\ tempCurves' = 0
          /\ last' = Done("removeEdge", edgeId, "removed")
          /\ UNCHANGED <<nodes, counters, selectedNodeId, linking, tempPath, tempD,
                         linkListeners, view, ports, gestureVars, saveVars>>

\* editor.js removeEdge(edgeId)
removeEdge(edgeId) ==
  IF edgeId \notin EdgeIds(edges)
  THEN /\ Budget
       /\ last' = Done("removeEdge", edgeId, "absent")
       /\ UNCHANGED <<graphVars, selectionVars, linkVars, isDirty, view, ports,
                      gestureVars, saveVars>>
  ELSE LET edge == EdgeById(edges, edgeId)
           E == EdgeDelete(edges, edgeId)
       IN /\ Budget
          /\ edges' = E
          /\ ports' = refreshNodePortsById(ports, nodes, E, edge.source)
          /\ selectedEdgeId' = IF selectedEdgeId = edgeId THEN Null ELSE selectedEdgeId
          /\ isDirty' = TRUE
          /\ properties' = IF selectedNodeId # Null /\ selectedNodeId \in DOMAIN nodes
                           THEN renderProperties(nodes[selectedNodeId], E)
                           ELSE properties
          /\ tempCurves' = 0
          /\ last' = Done("removeEdge", edgeId, "removed")
          /\ UNCHANGED <<nodes, counters, selectedNodeId, linking, tempPath, tempD,
                         linkListeners, view, gestureVars, saveVars>>

\* handleKeydown, key Delete outside a text field.
KeyDelete ==
  IF selectedEdgeId # Null THEN removeEdge(selectedEdgeId)
  ELSE /\ selectedNodeId # Null
       /\ removeNode(selectedNodeId)

\* The "Eliminar nodo" button of the form, the confirmation accepted.
PropertiesDeleteNode ==
  /\ properties.node # Null
  /\ removeNode(properties.node)

\* contextmenu on the path of an edge.
EdgeContextMenu(edgeId) ==
  /\ edgeId \in EdgeIds(edges)
  /\ removeEdge(edgeId)

\* The "Quitar" button of a connection row of the form.
PropertiesRemoveEdge(edgeId) ==
  /\ edgeId \in properties.edges
  /\ removeEdge(edgeId)

\* mousedown on a node element: selectNode(node.id).
NodeMouseDown(nodeId) ==
  /\ Budget
  /\ nodeId \in DOMAIN nodes
  /\ selectedNodeId' = nodeId
  /\ selectedEdgeId' = Null
  /\ properties' = renderProperties(nodes[nodeId], edges)
  /\ last' = Done("selectNode", nodeId, "selected")
  /\ UNCHANGED <<graphVars, linkVars, isDirty, view, ports, gestureVars, saveVars>>

\* A selection of an edge that leaves the selected node as it was.
EdgeClickKeepsNode(edgeId) ==
  /\ Budget
  /\ edgeId \in EdgeIds(edges)
  /\ selectedEdgeId' = edgeId
  /\ last' = Done("selectEdge", edgeId, "selected")
  /\ UNCHANGED <<graphVars, selectedNodeId, properties, linkVars, isDirty, view, ports,
                 gestureVars, saveVars>>

\* click on the path of an edge: selectEdge(edge.id).
EdgeClick(edgeId) ==
  /\ Budget
  /\ edgeId \in EdgeIds(edges)
  /\ selectedEdgeId' = edgeId
  /\ selectedNodeId' = Null
  /\ last' = Done("selectEdge", edgeId, "selected")
  /\ UNCHANGED <<graphVars, properties, linkVars, isDirty, view, ports,
                 gestureVars, saveVars>>

\* click on the canvas outside nodes and ports: selectNode(null).
CanvasClick ==
  /\ Budget
  /\ selectedNodeId' = Null
  /\ selectedEdgeId' = Null
  /\ properties' = DefaultProperties
  /\ last' = Done("selectNode", Null, "cleared")
  /\ UNCHANGED <<graphVars, linkVars, isDirty, view, ports, gestureVars, saveVars>>

(***************************************************************************)
(* Linking                                                                 *)
(***************************************************************************)

\* The temporary curve and the handlers of the link gesture, as they stand.
LinkDom == [tempPath |-> tempPath, tempCurves |-> tempCurves,
            linkListeners |-> linkListeners]

\* editor.js teardownLinking: the pair linkingHandlers holds is detached and
\* the curve state.tempPath holds is removed from the layer.
teardownLinking(dom) ==
  [tempPath |-> FALSE,
   tempCurves |-> IF dom.tempPath /\ dom.tempCurves > 0
                  THEN dom.tempCurves - 1 ELSE dom.tempCurves,
   tempD |-> <<>>,
   linkListeners |-> IF dom.linkListeners > 0 THEN dom.linkListeners - 1 ELSE 0]

\* The layout of a node card: the output ports are stacked down its right
\* edge, the first PortTop below the top of the card and PortPitch apart.
NodeWidth == 220
PortTop == 60
PortPitch == 30

\* getPortAnchorPoint of an output port, taken to the workspace: the middle of
\* the right edge of the index-th port of the node.
PortAnchor(node, index) ==
  PointAt(node.position.x + NodeWidth, node.position.y + PortTop + PortPitch * (index - 1))

\* updateTempLink, the source of the curve: the anchor of the registered port
\* of the gesture, or of state.linking.sourceElement, which is then out of the
\* document and has an empty rectangle at the origin of the screen.
LinkSourcePoint(P, N, link) ==
  IF /\ link.sourceId \in DOMAIN N
     /\ link.sourceId \in DOMAIN P
     /\ \E i \in 1..Len(P[link.sourceId]) : P[link.sourceId][i].id = link.sourcePort
  THEN PortAnchor(N[link.sourceId],
                  CHOOSE i \in 1..Len(P[link.sourceId]) :
                    P[link.sourceId][i].id = link.sourcePort)
  ELSE toWorkspace(view, 0, 0)

\* The place of a press on a port: the anchor of the port.
PressPoint(nodeId, index) == PortAnchor(nodes[nodeId], index)

\* beginLinking after its cancelLinking: state.linking, the curve created
\* when state.tempPath is null, a new pair of handlers attached.
StartLink(dom, nodeId, index, pointerId) ==
  /\ linking' = <<[sourceId |-> nodeId,
                   sourcePort |-> FirstNonEmpty(ports[nodeId][index].id, "salida"),
                   pointerId |-> pointerId,
                   sourceLabel |-> ports[nodeId][index].label]>>
  /\ tempPath' = TRUE
  /\ tempCurves' = IF dom.tempPath THEN dom.tempCurves ELSE dom.tempCurves + 1
  /\ tempD' = <<computeConnectionPath(PressPoint(nodeId, index), PressPoint(nodeId, index))>>
  /\ linkListeners' = dom.linkListeners + 1
  /\ last' = Done("beginLinking", nodeId, IF linking # <<>> THEN "restarted" ELSE "started")
  /\ UNCHANGED <<graphVars, selectionVars, isDirty, view, ports, gestureVars, saveVars>>

\* A link start that leaves the gesture in progress as it stands.
BeginLinkingNoCancel(nodeId, index, pointerId) ==
  /\ Budget
  /\ nodeId \in DOMAIN ports
  /\ index \in 1..Len(ports[nodeId])
  /\ pointerId \notin BusyPointers
  /\ StartLink(LinkDom, nodeId, index, pointerId)

\* pointerdown (button 0) on the index-th output port of a node:
\* beginLinking(node.id, port, event).
BeginLinking(nodeId, index, pointerId) ==
  /\ Budget
  /\ nodeId \in DOMAIN ports
  /\ index \in 1..Len(ports[nodeId])
  /\ pointerId \notin BusyPointers
  /\ StartLink(IF linking # <<>> THEN teardownLinking(LinkDom) ELSE LinkDom,
               nodeId, index, pointerId)

\* A completion that finds no port occupied.
ExistingEdgeNever(E, sourceId, sourcePort) == <<>>

\* completeLinking: the edge whose recorded port is the gesture's port.
ExistingEdge(E, sourceId, sourcePort) ==
  SelectSeq(E, LAMBDA edge :
    /\ edge.source = sourceId
    /\ (IF edge.sourcePort # "" THEN edge.sourcePort
        ELSE IF edge.label # "" THEN portKeyFromLabel(edge.label)
        ELSE "salida") = sourcePort)

\* A completion that reads no label from the port.
LinkPortLabelNone(P, link) == ""

\* getPortElement(sourceId, 'output', sourcePort) || sourceElement, then its
\* dataset.portLabel.
LinkPortLabel(P, link) ==
  LET registered == IF link.sourceId \in DOMAIN P
                    THEN SelectSeq(P[link.sourceId], LAMBDA q : q.id = link.sourcePort)
                    ELSE <<>>
  IN IF registered # <<>> THEN registered[Len(registered)].label ELSE link.sourceLabel

\* A completion that does not compare the target with the source.
completeLinkingNoSelfCheck(targetId) ==
  LET link == linking[1]
      sourceId == link.sourceId
      sourcePort == link.sourcePort
      edge == [id |-> generateEdgeId(KnownEdgeIds), source |-> sourceId,
               target |-> targetId, label |-> Trim(LinkPortLabel(ports, link)),
               sourcePort |-> sourcePort, targetPort |-> "input"]
      E == EdgeSet(edges, edge)
      torn == teardownLinking(LinkDom)
  IN /\ Budget
     /\ linking' = <<>>
     /\ tempPath' = torn.tempPath
     /\ tempD' = torn.tempD
     /\ linkListeners' = torn.linkListeners
     /\ IF sourceId \notin DOMAIN nodes \/ targetId \notin DOMAIN nodes
        THEN /\ last' = Done("completeLinking", targetId, "missing")
             /\ tempCurves' = torn.tempCurves
             /\ UNCHANGED <<graphVars, selectionVars, isDirty, ports>>
        ELSE IF ExistingEdge(edges, sourceId, sourcePort) # <<>>
        THEN /\ last' = Done("completeLinking", targetId, "occupied")
             /\ tempCurves' = torn.tempCurves
             /\ UNCHANGED <<graphVars, selectionVars, isDirty, ports>>
        ELSE /\ edges' = E
             /\ tempCurves' = 0
             /\ ports' = refreshNodePortsById(ports, nodes, E, sourceId)
             /\ properties' = IF selectedNodeId \in {sourceId, targetId}
                                 /\ selectedNodeId \in DOMAIN nodes
                              THEN renderProperties(nodes[selectedNodeId], E)
                              ELSE properties
             /\ isDirty' = TRUE
             /\ last' = Done("completeLinking", targetId, "created")
             /\ UNCHANGED <<nodes, counters, selectedNodeId, selectedEdgeId>>
     /\ UNCHANGED <<view, gestureVars, saveVars>>

\* completeLinking: the toast of each way it ends; only the occupied port
\* shows one.
LinkToast(outcome) ==
  IF outcome = "occupied" THEN "Ya existe una conexión para esa salida." ELSE ""

\* A completion that takes both nodes to be in the graph.
NodeMissingNever(N, sourceId, targetId) == FALSE

\* completeLinking: !sourceNode || !targetNode
NodeMissing(N, sourceId, targetId) == sourceId \notin DOMAIN N \/ targetId \notin DOMAIN N

\* editor.js completeLinking(targetId), the gesture being in progress.
completeLinking(targetId) ==
  LET link == linking[1]
      sourceId == link.sourceId
      sourcePort == link.sourcePort
      edge == [id |-> generateEdgeId(KnownEdgeIds), source |-> sourceId,
               target |-> targetId, label |-> Trim(LinkPortLabel(ports, link)),
               sourcePort |-> sourcePort, targetPort |-> "input"]
      E == EdgeSet(edges, edge)
      torn == teardownLinking(LinkDom)
  IN /\ Budget
     /\ linking' = <<>>
     /\ tempPath' = torn.tempPath
     /\ tempD' = torn.tempD
     /\ linkListeners' = torn.linkListeners
     /\ IF sourceId = targetId
        THEN /\ last' = Done("completeLinking", targetId, "self")
             /\ tempCurves' = torn.tempCurves
             /\ UNCHANGED <<graphVars, selectionVars, isDirty, ports>>
        ELSE IF NodeMissing(nodes, sourceId, targetId)
        THEN /\ last' = Done("completeLinking", targetId, "missing")
             /\ tempCurves' = torn.tempCurves
             /\ UNCHANGED <<graphVars, selectionVars, isDirty, ports>>
        ELSE IF ExistingEdge(edges, sourceId, sourcePort) # <<>>
        THEN /\ last' = Done("completeLinking", targetId, "occupied")
             /\ tempCurves' = torn.tempCurves
             /\ UNCHANGED <<graphVars, selectionVars, isDirty, ports>>
        ELSE /\ edges' = E
             /\ tempCurves' = 0
             /\ ports' = refreshNodePortsById(ports, nodes, E, sourceId)
             /\ properties' = IF selectedNodeId \in {sourceId, targetId}
                                 /\ selectedNodeId \in DOMAIN nodes
                              THEN renderProperties(nodes[selectedNodeId], E)
                              ELSE properties
             /\ isDirty' = TRUE
             /\ last' = Done("completeLinking", targetId, "created")
             /\ UNCHANGED <<nodes, counters, selectedNodeId, selectedEdgeId>>
     /\ UNCHANGED <<view, gestureVars, saveVars>>

\* editor.js cancelLinking
cancelLinking(op) ==
  /\ Budget
  /\ linking' = <<>>
  /\ tempPath' = teardownLinking(LinkDom).tempPath
  /\ tempD' = teardownLinking(LinkDom).tempD
  /\ tempCurves' = teardownLinking(LinkDom).tempCurves
  /\ linkListeners' = teardownLinking(LinkDom).linkListeners
  /\ last' = Done(op, Null, IF linking # <<>> THEN "cancelled" ELSE "idle")
  /\ UNCHANGED <<graphVars, selectionVars, isDirty, view, ports, gestureVars, saveVars>>

\* pointerup of the gesture's pointer over the input port of a node:
\* linkingHandlers.up, then completeLinking.
LinkPointerUpOnInput(targetId) ==
  /\ linking # <<>>
  /\ targetId \in DOMAIN nodes
  /\ completeLinking(targetId)

\* A release that completes the link on some node wherever the pointer is.
LinkPointerUpAnywhere ==
  /\ linking # <<>>
  /\ \E targetId \in DOMAIN nodes : completeLinking(targetId)

\* pointerup of the gesture's pointer anywhere else: linkingHandlers.up, then
\* cancelLinking.
LinkPointerUpElsewhere ==
  /\ linking # <<>>
  /\ cancelLinking("pointerup")

\* handleKeydown, key Escape outside a text field.
KeyEscape == cancelLinking("Escape")

(***************************************************************************)
(* Labels and answers                                                      *)
(***************************************************************************)

\* const [answerPart] = value.split(':'); (answerPart || '').trim()
AnswerPart(value) == Trim(Split(value, ":")[1])

\* The label handlers: edge.label = trimmed, and the port is rebound when the
\* label is not empty.
Relabel(edge, trimmed) ==
  [edge EXCEPT !.label = trimmed,
               !.sourcePort = IF normaliseAnswer(trimmed) # ""
                              THEN portKeyFromLabel(normaliseAnswer(trimmed))
                              ELSE edge.sourcePort]

\* change of the label input of a connection row of the form. The row holds
\* the edge object it was rendered for, which may have left the graph since.
PropertiesLabelChange(edgeId, rawValue) ==
  LET live == edgeId \in EdgeIds(edges)
      E == IF live THEN EdgeSet(edges, Relabel(EdgeById(edges, edgeId), AnswerPart(rawValue)))
           ELSE edges
  IN /\ Budget
     /\ edgeId \in properties.edges
     /\ edges' = E
     /\ isDirty' = TRUE
     /\ ports' = refreshNodePortsById(ports, nodes, E, properties.node)
     /\ tempCurves' = 0
     /\ last' = Done("labelChange", edgeId, IF live THEN "relabelled" ELSE "stale")
     /\ UNCHANGED <<nodes, counters, selectionVars, linking, tempPath, tempD, linkListeners, view,
                    gestureVars, saveVars>>

\* dblclick on the path of an edge, after the clicks that selected it; value
\* is the text the prompt returned (the current label when dismissed).
EdgeDblclick(edgeId, value) ==
  LET edge == EdgeById(edges, edgeId)
      trimmed == AnswerPart(value)
      E == EdgeSet(edges, Relabel(edge, trimmed))
  IN /\ Budget
     /\ edgeId \in EdgeIds(edges)
     /\ selectedEdgeId = edgeId
     /\ IF trimmed = edge.label
        THEN /\ last' = Done("labelPrompt", edgeId, "same")
             /\ UNCHANGED <<edges, ports, properties, isDirty>>
        ELSE /\ edges' = E
             /\ ports' = refreshNodePortsById(ports, nodes, E, edge.source)
             /\ properties' = IF selectedNodeId = edge.source /\ edge.source \in DOMAIN nodes
                              THEN renderProperties(nodes[edge.source], E)
                              ELSE properties
             /\ isDirty' = TRUE
             /\ last' = Done("labelPrompt", edgeId, "relabelled")
     /\ UNCHANGED <<nodes, counters, selectedNodeId, selectedEdgeId, linkVars, view,
                    gestureVars, saveVars>>

\* An answers blur that leaves the edges alone.
AnswersBlurNoReconcile(text) ==
  LET id == properties.node
      node == [nodes[id] EXCEPT !.expected_answers = parseExpectedAnswersInput(text)]
      N == [nodes EXCEPT ![id] = node]
  IN /\ Budget
     /\ id # Null
     /\ id \in DOMAIN nodes
     /\ nodes[id].type = "question"
     /\ nodes' = N
     /\ isDirty' = TRUE
     /\ ports' = refreshNodePortsById(ports, N, edges, id)
     /\ tempCurves' = 0
     /\ last' = Done("answersBlur", id, text)
     /\ UNCHANGED <<edges, counters, selectionVars, linking, tempPath, tempD, linkListeners, view,
                    gestureVars, saveVars>>

\* blur of the answers textarea of the form of a question node, holding text.
AnswersBlur(text) ==
  LET id == properties.node
      node == [nodes[id] EXCEPT !.expected_answers = parseExpectedAnswersInput(text)]
      N == [nodes EXCEPT ![id] = node]
      E == reconcileQuestionEdges(edges, node)
  IN /\ Budget
     /\ id # Null
     /\ id \in DOMAIN nodes
     /\ nodes[id].type = "question"
     /\ nodes' = N
     /\ isDirty' = TRUE
     /\ edges' = E
     /\ ports' = refreshNodePortsById(ports, N, E, id)
     /\ tempCurves' = 0
     /\ last' = Done("answersBlur", id, text)
     /\ UNCHANGED <<counters, selectionVars, linking, tempPath, tempD, linkListeners, view,
                    gestureVars, saveVars>>

\* The text of the answers textarea when nothing was typed into it.
AnswersFieldText ==
  IF properties.node \in DOMAIN nodes /\ nodes[properties.node].type = "question"
  THEN {expectedAnswersToText(nodes[properties.node].expected_answers)}
  ELSE {}

(***************************************************************************)
(* Node fields                                                             *)
(***************************************************************************)

\* Texts typed into the question, message and severity fields.
FieldTexts == {"Hola"}

\* Texts left in the metadata field: nothing, blanks, an object, and two texts
\* that are not JSON.
MetadataTexts == {"", "  ", "{\"owner\": \"ana\"}", "{\"owner\": ", "{owner: ana}"}

\* JSON.parse on the texts of MetadataTexts: <<>> when it throws a
\* SyntaxError, else <<the value>>.
JsonParse(text) ==
  IF text = "{\"owner\": \"ana\"}" THEN <<("owner" :> "ana")>> ELSE <<>>

\* The fields of the form other than the title, by node type.
FormFields(type) == IF type = "question" THEN {"question"} ELSE {"message", "severity"}

\* input on the title field of the form, the field then holding rawValue.
TitleInput(rawValue) ==
  LET id == properties.node
      N == [nodes EXCEPT ![id].title = rawValue]
  IN /\ Budget
     /\ id # Null
     /\ id \in DOMAIN nodes
     /\ nodes' = N
     /\ properties' = [properties EXCEPT !.title = rawValue]
     /\ isDirty' = TRUE
     /\ ports' = refreshNodePortsById(ports, N, edges, id)
     /\ last' = Done("titleInput", id, rawValue)
     /\ UNCHANGED <<edges, counters, selectedNodeId, selectedEdgeId, linkVars, view,
                    gestureVars, saveVars>>

\* blur of the title field of the form.
TitleBlur ==
  LET id == properties.node
      value == normaliseTitleValue(properties.title)
      title == IF value # "" THEN value
               ELSE deriveInitialTitle(nodes[id])
      N == [nodes EXCEPT ![id].title = title]
  IN /\ Budget
     /\ id # Null
     /\ id \in DOMAIN nodes
     /\ nodes' = N
     /\ properties' = [properties EXCEPT !.title = title]
     /\ ports' = refreshNodePortsById(ports, N, edges, id)
     /\ last' = Done("titleBlur", id, title)
     /\ UNCHANGED <<edges, counters, selectedNodeId, selectedEdgeId, linkVars, isDirty,
                    view, gestureVars, saveVars>>

\* input on the question, message or severity field of the form.
FieldInput(field, text) ==
  LET id == properties.node
      N == [nodes EXCEPT ![id] = [nodes[id] EXCEPT ![field] = text]]
  IN /\ Budget
     /\ id # Null
     /\ id \in DOMAIN nodes
     /\ field \in FormFields(nodes[id].type)
     /\ nodes' = N
     /\ isDirty' = TRUE
     /\ ports' = refreshNodePortsById(ports, N, edges, id)
     /\ last' = Done("fieldInput", id, field)
     /\ UNCHANGED <<edges, counters, selectionVars, linkVars, view, gestureVars, saveVars>>

\* A blur that empties the metadata of the node when the text is not JSON.
MetadataBlurClearsOnError(text) ==
  LET id == properties.node
      trimmed == Trim(text)
      parsed == JsonParse(trimmed)
  IN /\ Budget
     /\ id # Null
     /\ id \in DOMAIN nodes
     /\ nodes' = [nodes EXCEPT ![id].metadata =
                    IF parsed = <<>> THEN EmptyObject ELSE parsed[1]]
     /\ properties' = [properties EXCEPT !.metadataError = trimmed # "" /\ parsed = <<>>]
     /\ isDirty' = (isDirty \/ trimmed = "" \/ parsed # <<>>)
     /\ last' = Done("metadataBlur", id,
                     IF trimmed = "" THEN "emptied"
                     ELSE IF parsed = <<>> THEN "rejected" ELSE "parsed")
     /\ UNCHANGED <<edges, counters, selectedNodeId, selectedEdgeId, linkVars, view, ports,
                    gestureVars, saveVars>>

\* blur of the metadata field of the form, the field then holding text: the
\* metadata becomes {} for an empty text and the parsed value for JSON; for any
\* other text the field gets the class error and a toast is shown.
MetadataBlur(text) ==
  LET id == properties.node
      trimmed == Trim(text)
      parsed == JsonParse(trimmed)
  IN /\ Budget
     /\ id # Null
     /\ id \in DOMAIN nodes
     /\ nodes' = [nodes EXCEPT ![id].metadata =
                    IF trimmed = "" THEN EmptyObject
                    ELSE IF parsed = <<>> THEN @ ELSE parsed[1]]
     /\ properties' = [properties EXCEPT !.metadataError = trimmed # "" /\ parsed = <<>>]
     /\ isDirty' = (isDirty \/ trimmed = "" \/ parsed # <<>>)
     /\ last' = Done("metadataBlur", id,
                     IF trimmed = "" THEN "emptied"
                     ELSE IF parsed = <<>> THEN "rejected" ELSE "parsed")
     /\ UNCHANGED <<edges, counters, selectedNodeId, selectedEdgeId, linkVars, view, ports,
                    gestureVars, saveVars>>

(***************************************************************************)
(* Node drag                                                               *)
(***************************************************************************)

\* pointerdown (button 0) on the surface of a node: selectNode(node.id), then
\* startNodeDrag(event, node).
NodePointerDown(nodeId, pointerId, point) ==
  /\ Budget
  /\ nodeId \in DOMAIN nodes
  /\ pointerId \notin BusyPointers
  /\ selectedNodeId' = nodeId
  /\ selectedEdgeId' = Null
  /\ properties' = renderProperties(nodes[nodeId], edges)
  /\ drags' = drags \cup {[nodeId |-> nodeId, pointerId |-> pointerId,
                           start |-> toWorkspace(view, point.x, point.y),
                           origin |-> nodes[nodeId].position]}
  /\ last' = Done("startNodeDrag", nodeId, "dragging")
  /\ UNCHANGED <<graphVars, linkVars, isDirty, view, ports, pan, saveVars>>

\* startNodeDrag, onMove: pointermove of the pointer of drag d.
DragPointerMove(d, point) ==
  LET p == toWorkspace(view, point.x, point.y)
      position == [x |-> snap(RSub(RAdd(FromInt(d.origin.x), p.x), d.start.x)),
                   y |-> snap(RSub(RAdd(FromInt(d.origin.y), p.y), d.start.y))]
      N == [nodes EXCEPT ![d.nodeId].position = position]
  IN /\ Budget
     /\ d \in drags
     /\ nodes' = N
     /\ ports' = refreshNodePortsById(ports, N, edges, d.nodeId)
     /\ isDirty' = TRUE
     /\ last' = Done("dragMove", d.nodeId, "moved")
     /\ UNCHANGED <<edges, counters, selectionVars, linkVars, view, gestureVars, saveVars>>

\* startNodeDrag, endDrag: pointerup or pointercancel of the pointer of drag d.
DragPointerEnd(d, kind) ==
  /\ Budget
  /\ d \in drags
  /\ drags' = drags \ {d}
  /\ last' = Done("endDrag", d.nodeId, kind)
  /\ UNCHANGED <<graphVars, selectionVars, linkVars, isDirty, view, ports, pan, saveVars>>

(***************************************************************************)
(* View: zoom and pan                                                      *)
(***************************************************************************)

\* handleWheel bounds of the scale: 0.3 and 1.8
MinScale == Rat(3, 10)
MaxScale == Rat(9, 5)

\* A zoom that multiplies the scale and does not clamp it.
WheelNoClamp(point, zoomIn) ==
  LET delta == IF zoomIn THEN Rat(11, 10) ELSE Rat(9, 10)
      newScale == RMul(view.scale, delta)
      pointerX == FromInt(point.x - DrawflowLeft)
      pointerY == FromInt(point.y - DrawflowTop)
      zoomed(pointer, translate) ==
        RSub(pointer, RDiv(RMul(RSub(pointer, translate), newScale), view.scale))
  IN /\ Budget
     /\ newScale.d <= MaxScaleDenominator
     /\ view' = [scale |-> newScale,
                 translateX |-> zoomed(pointerX, view.translateX),
                 translateY |-> zoomed(pointerY, view.translateY)]
     /\ last' = Done("wheel", Null, IF zoomIn THEN "in" ELSE "out")
     /\ UNCHANGED <<graphVars, selectionVars, linkVars, isDirty, ports, gestureVars, saveVars>>

\* A zoom that clamps the scale and moves the translation by the factor of the
\* wheel step, clamped or not.
WheelTranslateByDelta(point, zoomIn) ==
  LET delta == IF zoomIn THEN Rat(11, 10) ELSE Rat(9, 10)
      newScale == RMin(MaxScale, RMax(MinScale, RMul(view.scale, delta)))
      pointerX == FromInt(point.x - DrawflowLeft)
      pointerY == FromInt(point.y - DrawflowTop)
      zoomed(pointer, translate) ==
        RSub(pointer, RMul(RSub(pointer, translate), delta))
  IN /\ Budget
     /\ newScale.d <= MaxScaleDenominator
     /\ view' = [scale |-> newScale,
                 translateX |-> zoomed(pointerX, view.translateX),
                 translateY |-> zoomed(pointerY, view.translateY)]
     /\ last' = Done("wheel", Null, IF zoomIn THEN "in" ELSE "out")
     /\ UNCHANGED <<graphVars, selectionVars, linkVars, isDirty, ports, gestureVars, saveVars>>

\* handleWheel with ctrl or meta held; zoomIn is deltaY < 0.
Wheel(point, zoomIn) ==
  LET delta == IF zoomIn THEN Rat(11, 10) ELSE Rat(9, 10)
      newScale == RMin(MaxScale, RMax(MinScale, RMul(view.scale, delta)))
      pointerX == FromInt(point.x - DrawflowLeft)
      pointerY == FromInt(point.y - DrawflowTop)
      zoomed(pointer, translate) ==
        RSub(pointer, RDiv(RMul(RSub(pointer, translate), newScale), view.scale))
  IN /\ Budget
     /\ newScale.d <= MaxScaleDenominator
     /\ view' = [scale |-> newScale,
                 translateX |-> zoomed(pointerX, view.translateX),
                 translateY |-> zoomed(pointerY, view.translateY)]
     /\ last' = Done("wheel", Null, IF zoomIn THEN "in" ELSE "out")
     /\ UNCHANGED <<graphVars, selectionVars, linkVars, isDirty, ports, gestureVars, saveVars>>

\* setupPan: pointerdown (button 2) on the canvas.
PanPointerDown(pointerId, point) ==
  /\ Budget
  /\ pointerId \notin BusyPointers
  /\ pan' = [isPanning |-> TRUE, pointerId |-> pointerId,
             startX |-> point.x, startY |-> point.y,
             originX |-> view.translateX, originY |-> view.translateY]
  /\ last' = Done("panStart", Null, "panning")
  /\ UNCHANGED <<graphVars, selectionVars, linkVars, isDirty, view, ports, drags, saveVars>>

\* A pan move that marks the graph dirty, as a drag move does.
PanPointerMoveDirty(point) ==
  /\ Budget
  /\ pan.isPanning
  /\ view' = [view EXCEPT !.translateX = RAdd(pan.originX, FromInt(point.x - pan.startX)),
                          !.translateY = RAdd(pan.originY, FromInt(point.y - pan.startY))]
  /\ isDirty' = TRUE
  /\ last' = Done("panMove", Null, "panning")
  /\ UNCHANGED <<graphVars, selectionVars, linkVars, ports, gestureVars, saveVars>>

\* setupPan: pointermove of the pan pointer.
PanPointerMove(point) ==
  /\ Budget
  /\ pan.isPanning
  /\ view' = [view EXCEPT !.translateX = RAdd(pan.originX, FromInt(point.x - pan.startX)),
                          !.translateY = RAdd(pan.originY, FromInt(point.y - pan.startY))]
  /\ last' = Done("panMove", Null, "panning")
  /\ UNCHANGED <<graphVars, selectionVars, linkVars, isDirty, ports, gestureVars, saveVars>>

\* setupPan, endPan: pointerup or pointercancel of the pan pointer.
PanPointerEnd(kind) ==
  /\ Budget
  /\ pan.isPanning
  /\ pan' = [pan EXCEPT !.isPanning = FALSE, !.pointerId = 0]
  /\ last' = Done("endPan", Null, kind)
  /\ UNCHANGED <<graphVars, selectionVars, linkVars, isDirty, view, ports, drags, saveVars>>

\* pointermove, pointerup or pointercancel (kind) of a pointer that owns no
\* gesture: onMove and endDrag, linkingHandlers.move and linkingHandlers.up,
\* and the pan handlers each compare event.pointerId with the id of their
\* gesture and return.
ForeignPointerEvent(pointerId, kind) ==
  /\ Budget
  /\ pointerId \notin BusyPointers
  /\ last' = Done(kind, ToString(pointerId), "ignored")
  /\ UNCHANGED <<graphVars, selectionVars, linkVars, isDirty, view, ports, gestureVars,
                 saveVars>>

\* pointermove of the gesture's pointer at the screen point: linkingHandlers.move
\* and the pointermove listener of the canvas both call updateTempLink, which
\* writes the d attribute of the temporary curve.
LinkPointerMove(point) ==
  /\ Budget
  /\ linking # <<>>
  /\ tempD' = IF tempPath
              THEN <<computeConnectionPath(LinkSourcePoint(ports, nodes, linking[1]),
                                           toWorkspace(view, point.x, point.y))>>
              ELSE tempD
  /\ last' = Done("updateTempLink", Null, "drawn")
  /\ UNCHANGED <<graphVars, selectionVars, linking, tempPath, tempCurves, linkListeners,
                 isDirty, view, ports, gestureVars, saveVars>>

\* setupPan, endPan: pointercancel of the linking pointer over the canvas.
LinkPointerCancel ==
  /\ linking # <<>>
  /\ cancelLinking("pointercancel")

\* pointercancel of the linking pointer at an element outside the canvas:
\* beginLinking attaches to the document a pointermove and a pointerup handler
\* and captures no pointer, and the pointercancel listener of endPan is on the
\* canvas, so no handler runs.
LinkPointerCancelOutside ==
  /\ Budget
  /\ linking # <<>>
  /\ last' = Done("pointercancel", "outside", "ignored")
  /\ UNCHANGED <<graphVars, selectionVars, linkVars, isDirty, view, ports, gestureVars,
                 saveVars>>

\* handleKeydown, a key pressed while a field of the form has the focus: the
\* handler returns when event.target is an INPUT or a TEXTAREA.
KeyInTextField(key) ==
  /\ Budget
  /\ properties.node # Null
  /\ last' = Done(key, "field", "ignored")
  /\ UNCHANGED <<graphVars, selectionVars, linkVars, isDirty, view, ports, gestureVars,
                 saveVars>>

(***************************************************************************)
(* Guarded navigation                                                      *)
(***************************************************************************)

\* A guard that lets every click through.
guardNeverPrevents(dirty, confirmed) == FALSE

\* guardAgainstDirtyNavigation: whether the click ends with defaultPrevented,
\* dirty being editorBridge.isDirty() and confirmed the answer to
\* window.confirm, which is asked only when dirty.
guardAgainstDirtyNavigation(dirty, confirmed) == dirty /\ ~confirmed

\* A click on a guarded control: whether the discard prompt was shown and
\* whether it was confirmed.
Click(control, dirty, confirmed) ==
  [control |-> control, prompted |-> dirty, confirmed |-> dirty /\ confirmed]

\* cancelScheduledNavigation(button): the timer of the button is cleared.
cancelScheduledNavigation(pending, button) == {c \in pending : c.control # button}

\* editor.js beforeunload handler: the browser asks before it leaves a dirty
\* editor, leave being the answer.
Leaves(leave) == ~isDirty \/ leave

\* click on a .project-flow__select button: cancelScheduledNavigation, the
\* guard, then scheduleFlowNavigation unless the click was prevented.
FlowSelectClick(button, confirmed) ==
  LET cleared == cancelScheduledNavigation(navigation.pending, button)
      prevented == guardAgainstDirtyNavigation(isDirty, confirmed)
  IN /\ Budget
     /\ navigation' = [navigation EXCEPT
                         !.pending = IF prevented THEN cleared
                                     ELSE cleared \cup {Click(button, isDirty, confirmed)}]
     /\ last' = Done("flowSelect", button,
                     IF ~isDirty THEN "no prompt"
                     ELSE IF confirmed THEN "confirmed" ELSE "declined")
     /\ UNCHANGED <<graphVars, selectionVars, linkVars, isDirty, view, ports, gestureVars,
                    saves, flowData, acknowledged>>

\* click on another data-ensure-clean element: the guard, then the default
\* action of the element, a navigation, unless the click was prevented.
EnsureCleanClick(element, confirmed, leave) ==
  LET prevented == guardAgainstDirtyNavigation(isDirty, confirmed)
  IN /\ Budget
     /\ navigation' = [navigation EXCEPT
                         !.left = IF prevented \/ ~Leaves(leave) THEN <<>>
                                  ELSE <<Click(element, isDirty, confirmed)>>]
     /\ last' = Done("ensureClean", element,
                     IF ~isDirty THEN "no prompt"
                     ELSE IF confirmed THEN "confirmed" ELSE "declined")
     /\ UNCHANGED <<graphVars, selectionVars, linkVars, isDirty, view, ports, gestureVars,
                    saves, flowData, acknowledged>>

\* The timer of scheduleFlowNavigation, 250 ms after the click: the entry of
\* the button is deleted and window.location.href is set.
NavigationTimer(click, leave) ==
  /\ Budget
  /\ click \in navigation.pending
  /\ navigation' = [pending |-> navigation.pending \ {click},
                    left |-> IF Leaves(leave) THEN <<click>> ELSE <<>>]
  /\ last' = Done("navigate", click.control, IF Leaves(leave) THEN "left" ELSE "stayed")
  /\ UNCHANGED <<graphVars, selectionVars, linkVars, isDirty, view, ports, gestureVars,
                 saves, flowData, acknowledged>>

(***************************************************************************)
(* Persistence and the bridge                                              *)
(***************************************************************************)

\* editor.js normaliseNode
normaliseNode(node) ==
  LET base == [id |-> node.id, type |-> node.type, position |-> node.position,
               metadata |-> node.metadata]
      typed == IF node.type = "question"
               THEN base @@ [question |-> node.question,
                             expected_answers |-> serialiseExpectedAnswers(node.expected_answers)]
               ELSE IF node.type = "message"
               THEN base @@ [message |-> node.message, severity |-> node.severity]
               ELSE base
      titleValue == normaliseTitleValue(node.title)
      titled == IF titleValue # "" THEN typed @@ [title |-> titleValue] ELSE typed
  IN IF KeyCount(node.appearance) > 0
     THEN titled @@ [appearance |-> node.appearance]
     ELSE titled

\* editor.js buildPayload: the nodes and edges of the payload.
PayloadOf(N, E) ==
  [nodes |-> [id \in DOMAIN N |-> normaliseNode(N[id])],
   edges |-> [i \in 1..Len(E) |->
                [id |-> E[i].id, source |-> E[i].source, target |-> E[i].target,
                 label |-> E[i].label, source_port |-> E[i].sourcePort,
                 target_port |-> E[i].targetPort]]]

\* buildPayload() over the graph in memory.
buildPayload == PayloadOf(nodes, edges)

RemoveAt(q, i) == SubSeq(q, 1, i - 1) \o SubSeq(q, i + 1, Len(q))

\* saveFlow up to the await: the payload is built and the request sent.
SaveFlow ==
  /\ Budget
  /\ Len(saves) < MaxPendingSaves
  /\ saves' = Append(saves, buildPayload)
  /\ last' = Done("saveFlow", Null, "sent")
  /\ UNCHANGED <<graphVars, selectionVars, linkVars, isDirty, view, ports, gestureVars,
                 flowData, acknowledged, navigation>>

\* saveFlow after the await, response.ok: Object.assign(flowData, payload) and
\* markClean.
SaveOk(i) ==
  /\ Budget
  /\ i \in 1..Len(saves)
  /\ flowData' = saves[i]
  /\ saves' = RemoveAt(saves, i)
  /\ acknowledged' = TRUE
  /\ isDirty' = FALSE
  /\ last' = Done("saveFlow", Null, "saved")
  /\ UNCHANGED <<graphVars, selectionVars, linkVars, view, ports, gestureVars, navigation>>

\* A failure handler that clears the dirty flag as the acknowledgment does.
SaveFailMarksClean(i) ==
  /\ Budget
  /\ i \in 1..Len(saves)
  /\ saves' = RemoveAt(saves, i)
  /\ isDirty' = FALSE
  /\ last' = Done("saveFlow", Null, "failed")
  /\ UNCHANGED <<graphVars, selectionVars, linkVars, view, ports, gestureVars,
                 flowData, acknowledged, navigation>>

\* saveFlow after the await, the response not ok or the request rejected.
SaveFail(i) ==
  /\ Budget
  /\ i \in 1..Len(saves)
  /\ saves' = RemoveAt(saves, i)
  /\ last' = Done("saveFlow", Null, "failed")
  /\ UNCHANGED <<graphVars, selectionVars, linkVars, isDirty, view, ports, gestureVars,
                 flowData, acknowledged, navigation>>

\* A validation or an export that clears the dirty flag when it succeeds, as a
\* save does.
CollaboratorCallMarksClean(op, ok) ==
  /\ Budget
  /\ isDirty' = (isDirty /\ ~ok)
  /\ last' = Done(op, Null, IF ok THEN "ok" ELSE "failed")
  /\ UNCHANGED <<graphVars, selectionVars, linkVars, view, ports, gestureVars,
                 saveVars>>

\* validateFlow and exportYaml (op), request and response: a notice or a
\* download, whatever the response.
CollaboratorCall(op, ok) ==
  /\ Budget
  /\ last' = Done(op, Null, IF ok THEN "ok" ELSE "failed")
  /\ UNCHANGED <<graphVars, selectionVars, linkVars, isDirty, view, ports, gestureVars,
                 saveVars>>

\* editorBridge.markDirty(), called by a collaborator.
BridgeMarkDirty ==
  /\ Budget
  /\ isDirty' = TRUE
  /\ last' = Done("bridge", Null, "markDirty")
  /\ UNCHANGED <<graphVars, selectionVars, linkVars, view, ports, gestureVars, saveVars>>

\* editorBridge.markClean(), called by a collaborator.
BridgeMarkClean ==
  /\ Budget
  /\ isDirty' = FALSE
  /\ last' = Done("bridge", Null, "markClean")
  /\ UNCHANGED <<graphVars, selectionVars, linkVars, view, ports, gestureVars, saveVars>>

(***************************************************************************)
(* Specifications                                                          *)
(***************************************************************************)

\* The view of a page that has not been zoomed or panned.
InitialView == [scale |-> FromInt(1), translateX |-> FromInt(0), translateY |-> FromInt(0)]

\* The page over the persisted flow sn, once the view has been brought to v.
InitWith(sn, budget, v) ==
  LET loaded == initialise(sn.nodes, sn.edges)
  IN /\ nodes = loaded.nodes
     /\ edges = loaded.edges
     /\ counters = loaded.counters
     /\ selectedNodeId = Null
     /\ selectedEdgeId = Null
     /\ linking = <<>>
     /\ tempPath = FALSE
     /\ tempD = <<>>
     /\ tempCurves = 0
     /\ linkListeners = 0
     /\ isDirty = loaded.isDirty
     /\ view = v
     /\ ports = renderNodes(loaded.nodes, loaded.edges)
     /\ drags = {}
     /\ pan = [isPanning |-> FALSE, pointerId |-> 0, startX |-> 0, startY |-> 0,
               originX |-> FromInt(0), originY |-> FromInt(0)]
     /\ saves = <<>>
     /\ flowData = sn
     /\ acknowledged = FALSE
     /\ navigation = [pending |-> {}, left |-> <<>>]
     /\ properties = DefaultProperties
     /\ last = Done("initialise", Null, "loaded")
     /\ steps = budget

\* The page once the script has run over the persisted flow sn.
InitFrom(sn, budget) == InitWith(sn, budget, InitialView)

\* The empty flow or the flow of the pool.
InitGraph == \E sn \in Snapshots : InitFrom(sn, MaxGraphSteps)

Init == \E sn \in Snapshots : InitFrom(sn, MaxSteps)

\* Any flow of the pool.
InitAnyLoad == \E sn \in SnapshotsAny : InitFrom(sn, MaxGraphSteps)

\* The small flow.
InitFields == InitFrom(SmallFlow, MaxFieldSteps)

\* The small flow, for the sessions with navigation.
InitNav == InitFrom(SmallFlow, MaxNavSteps)

\* The flow of the link sessions, for the sessions with pointer moves.
InitCurve == InitFrom(LinkFlow, MaxCurveSteps)

\* The views a drag session starts from: the initial view, the view after a
\* zoom in at (400, 300) followed by a pan by (80, -40), and the views after
\* seven zooms in and after twelve zooms out at the top left corner of the
\* canvas, (200, 100), where the scale has met its upper and its lower bound
\* and the translation is still zero.
DragViews ==
  {InitialView,
   [scale |-> Rat(11, 10), translateX |-> FromInt(60), translateY |-> FromInt(-60)],
   [scale |-> MaxScale, translateX |-> FromInt(0), translateY |-> FromInt(0)],
   [scale |-> MinScale, translateX |-> FromInt(0), translateY |-> FromInt(0)]}

\* The flow of two nodes under one of the views.
InitDrag == \E v \in DragViews : InitWith(DragFlow, MaxDragSteps, v)

\* The flow with a free output port.
InitLink == InitFrom(LinkFlow, MaxLinkSteps)

\* The flow with two edges of one key.
InitPorts == InitFrom(PortFlow, MaxGraphSteps)

\* The handlers that edit the graph and the selection.
GraphNext ==
  \/ \E type \in NodeTypes, r \in RandomOffsets : AddNode(type, r)
  \/ KeyDelete
  \/ PropertiesDeleteNode
  \/ \E edgeId \in EdgeIds(edges) : EdgeContextMenu(edgeId)
  \/ \E edgeId \in properties.edges : PropertiesRemoveEdge(edgeId)
  \/ \E nodeId \in DOMAIN nodes : NodeMouseDown(nodeId)
  \/ \E edgeId \in EdgeIds(edges) : EdgeClick(edgeId)
  \/ CanvasClick
  \/ \E nodeId \in DOMAIN nodes, index \in 1..MaxNodes, pointerId \in FirstFreePointer :
       BeginLinking(nodeId, index, pointerId)
  \/ \E targetId \in DOMAIN nodes : LinkPointerUpOnInput(targetId)
  \/ LinkPointerUpElsewhere
  \/ KeyEscape
  \/ \E edgeId \in properties.edges, rawValue \in LabelTexts :
       PropertiesLabelChange(edgeId, rawValue)
  \/ \E edgeId \in EdgeIds(edges), value \in LabelTexts : EdgeDblclick(edgeId, value)
  \/ \E text \in AnswerTexts \cup AnswersFieldText : AnswersBlur(text)

\* The handlers of the fields of the form and of persistence.
FieldNext ==
  \/ \E nodeId \in DOMAIN nodes : NodeMouseDown(nodeId)
  \/ \E rawValue \in TitleTexts : TitleInput(rawValue)
  \/ TitleBlur
  \/ \E field \in {"question", "message", "severity"}, text \in FieldTexts :
       FieldInput(field, text)
  \/ \E text \in MetadataTexts : MetadataBlur(text)
  \/ \E text \in AnswerTexts \cup AnswersFieldText : AnswersBlur(text)
  \/ SaveFlow
  \/ \E i \in 1..MaxPendingSaves : SaveOk(i)
  \/ \E i \in 1..MaxPendingSaves : SaveFail(i)
  \/ \E op \in {"validateFlow", "exportYaml"}, ok \in BOOLEAN : CollaboratorCall(op, ok)

\* The handlers of the pointer gestures on nodes and on the view.
GestureNext ==
  \/ \E nodeId \in DOMAIN nodes, pointerId \in PointerIds, point \in ClientPoints :
       NodePointerDown(nodeId, pointerId, point)
  \/ \E d \in drags, point \in ClientPoints : DragPointerMove(d, point)
  \/ \E d \in drags, kind \in {"pointerup", "pointercancel"} : DragPointerEnd(d, kind)
  \/ \E point \in ClientPoints, zoomIn \in BOOLEAN : Wheel(point, zoomIn)
  \/ \E pointerId \in PointerIds, point \in ClientPoints : PanPointerDown(pointerId, point)
  \/ \E point \in ClientPoints : PanPointerMove(point)
  \/ \E kind \in {"pointerup", "pointercancel"} : PanPointerEnd(kind)
  \/ LinkPointerCancel
  \/ LinkPointerCancelOutside
  \/ \E key \in {"Escape", "Delete"} : KeyInTextField(key)
  \/ \E pointerId \in PointerIds, kind \in {"pointermove", "pointerup", "pointercancel"} :
       ForeignPointerEvent(pointerId, kind)

\* The handlers of the link gesture, with the selection, the removal and the
\* answers edit that the keyboard and the form allow while it is in progress.
LinkNext ==
  \/ \E nodeId \in DOMAIN nodes : NodeMouseDown(nodeId)
  \/ KeyDelete
  \/ \E nodeId \in DOMAIN nodes, index \in 1..MaxNodes, pointerId \in FirstFreePointer :
       BeginLinking(nodeId, index, pointerId)
  \/ \E targetId \in DOMAIN nodes : LinkPointerUpOnInput(targetId)
  \/ LinkPointerUpElsewhere
  \/ KeyEscape
  \/ LinkPointerCancel
  \/ LinkPointerCancelOutside
  \/ \E key \in {"Escape", "Delete"} : KeyInTextField(key)
  \/ \E text \in AnswerTexts : AnswersBlur(text)
  \/ \E pointerId \in PointerIds, kind \in {"pointermove", "pointerup", "pointercancel"} :
       ForeignPointerEvent(pointerId, kind)

\* The handlers of the node drag, the pan and the zoom.
DragNext ==
  \/ \E nodeId \in DOMAIN nodes, pointerId \in PointerIds, point \in DragPoints :
       NodePointerDown(nodeId, pointerId, point)
  \/ \E d \in drags, point \in DragPoints : DragPointerMove(d, point)
  \/ \E d \in drags, kind \in {"pointerup", "pointercancel"} : DragPointerEnd(d, kind)
  \/ \E point \in DragPoints, zoomIn \in BOOLEAN : Wheel(point, zoomIn)
  \/ \E pointerId \in PointerIds, point \in DragPoints : PanPointerDown(pointerId, point)
  \/ \E point \in DragPoints : PanPointerMove(point)
  \/ \E kind \in {"pointerup", "pointercancel"} : PanPointerEnd(kind)
  \/ \E pointerId \in PointerIds, kind \in {"pointermove", "pointerup", "pointercancel"} :
       ForeignPointerEvent(pointerId, kind)

\* The handlers of the fields and of persistence, and the guarded navigation.
NavNext ==
  \/ FieldNext
  \/ \E button \in FlowButtons, confirmed \in BOOLEAN : FlowSelectClick(button, confirmed)
  \/ \E element \in EnsureCleanElements, confirmed \in BOOLEAN, leave \in BOOLEAN :
       EnsureCleanClick(element, confirmed, leave)
  \/ \E click \in navigation.pending, leave \in BOOLEAN : NavigationTimer(click, leave)

\* The handlers of the link gesture with the moves of its pointer.
CurveNext ==
  \/ \E nodeId \in DOMAIN nodes : NodeMouseDown(nodeId)
  \/ KeyDelete
  \/ \E nodeId \in DOMAIN nodes, index \in 1..MaxNodes, pointerId \in FirstFreePointer :
       BeginLinking(nodeId, index, pointerId)
  \/ \E point \in CurvePoints : LinkPointerMove(point)
  \/ LinkPointerUpElsewhere

\* The calls a collaborator can make on the bridge.
BridgeNext ==
  \/ BridgeMarkDirty
  \/ BridgeMarkClean

\* Every handler of the page.
Next ==
  \/ GraphNext
  \/ FieldNext
  \/ GestureNext

\* Sessions of any handlers.
Spec == Init /\ [][Next]_vars

\* Every handler and the bridge calls.
BridgeSessionNext ==
  \/ Next
  \/ BridgeNext

\* Sessions in which collaborators also call the bridge.
SpecBridge == Init /\ [][BridgeSessionNext]_vars

\* Sessions of graph editing.
SpecGraph == InitGraph /\ [][GraphNext]_vars

\* Sessions of graph editing that start from any persisted flow.
SpecAnyLoad == InitAnyLoad /\ [][GraphNext]_vars

\* Sessions of field editing and saving on a small flow.
SpecFields == InitFields /\ [][FieldNext]_vars

\* Sessions of drags, pans and zooms.
SpecDrag == InitDrag /\ [][DragNext]_vars

\* Sessions of link gestures.
SpecLink == InitLink /\ [][LinkNext]_vars

\* Sessions of field editing, saving and clicks on the guarded controls.
SpecNav == InitNav /\ [][NavNext]_vars

\* Sessions of link gestures whose pointer moves.
SpecCurve == InitCurve /\ [][CurveNext]_vars

\* Sessions that edit the graph loaded from the flow with two edges of one key.
SpecPorts == InitPorts /\ [][GraphNext]_vars

(***************************************************************************)
(* Properties                                                              *)
(***************************************************************************)

\* The edges of E that leave nodeId.
OutgoingOf(E, nodeId) == {E[i] : i \in {j \in 1..Len(E) : E[j].source = nodeId}}

\* The normalized key of a text: the port key of the trimmed text.
KeyOf(text) == portKeyFromLabel(normaliseAnswer(text))

\* C1: no two edges of the edge map have the same source node and the same
\* sourcePort.
C1_DistinctSourcePorts ==
  \A i, j \in 1..Len(edges) :
    i # j => ~(edges[i].source = edges[j].source /\ edges[i].sourcePort = edges[j].sourcePort)

\* The link gesture in progress started from a port that an edge occupies.
LinkFromOccupiedPort ==
  /\ linking # <<>>
  /\ \E i \in 1..Len(edges) :
       edges[i].source = linking[1].sourceId /\ edges[i].sourcePort = linking[1].sourcePort

\* C2: when a link gesture that started from an occupied output port is
\* released over an input port, the edge map, the node map and the dirty flag
\* stay as they were and the gesture is ended.
C2_OccupiedPortRejected ==
  [][(LinkFromOccupiedPort /\ \E targetId \in DOMAIN nodes : LinkPointerUpOnInput(targetId))
       => /\ edges' = edges
          /\ nodes' = nodes
          /\ isDirty' = isDirty
          /\ linking' = <<>>
          /\ tempPath' = FALSE]_vars

\* A release over an input port has just been rejected because the port of the
\* gesture was occupied.
C2_Witness ==
  /\ last.op = "completeLinking"
  /\ last.outcome = "occupied"
  /\ linking = <<>>
  /\ edges # <<>>

\* C3: removeNode(id) on an existing node removes that node and exactly the
\* edges whose source or target is id; every other node and every other edge
\* is unchanged.
C3_RemoveNodeFrame ==
  [][\A id \in DOMAIN nodes :
       removeNode(id) =>
         /\ DOMAIN nodes' = DOMAIN nodes \ {id}
         /\ \A other \in DOMAIN nodes' : nodes'[other] = nodes[other]
         /\ EdgeIds(edges') =
              {edges[i].id : i \in {j \in 1..Len(edges) :
                                      edges[j].source # id /\ edges[j].target # id}}
         /\ \A k \in 1..Len(edges') : edges'[k] = EdgeById(edges, edges'[k].id)]_vars

\* message_1 has just been removed from the flow of the pool: its two edges
\* went, the edge between the two other nodes stayed.
C3_Witness ==
  /\ last.op = "removeNode"
  /\ last.arg = "message_1"
  /\ DOMAIN nodes = {"question_1", "message_3"}
  /\ EdgeIds(edges) = {"e2"}

\* C4: every edge's source and target are ids of nodes of the node map.
C4_EdgesJoinLiveNodes ==
  \A i \in 1..Len(edges) :
    edges[i].source \in DOMAIN nodes /\ edges[i].target \in DOMAIN nodes

\* C5: every edge's sourcePort is the id of one of the output ports currently
\* derived for its source node.
C5_SourcePortIsDerivedPort ==
  \A i \in 1..Len(edges) :
    edges[i].source \in DOMAIN ports =>
      edges[i].sourcePort \in PortIds(ports[edges[i].source])

\* The step is an answer-list edit of the question node the form shows.
AnswerEdit ==
  /\ last'.op = "answersBlur"
  /\ \E text \in AnswerTexts \cup AnswersFieldText : AnswersBlur(text)

\* The values of the answers of the edited node after the edit.
NewAnswerValues ==
  LET answers == nodes'[properties.node].expected_answers
  IN {answers[i].value : i \in 1..Len(answers)}

\* C6: after an answer-list edit of a question node, every surviving outgoing
\* edge of the node has a sourcePort that is the normalized key of a current
\* answer, and every outgoing edge whose label's key is among the new keys
\* survives with its label rewritten to the text of an answer with that key.
C6_ReconciledEdgesMatchAnswers ==
  [][AnswerEdit =>
       /\ \A e \in OutgoingOf(edges', properties.node) :
            \E v \in NewAnswerValues : e.sourcePort = KeyOf(v)
       /\ \A e \in OutgoingOf(edges, properties.node) :
            (\E v \in NewAnswerValues : KeyOf(v) = KeyOf(e.label)) =>
              /\ e.id \in EdgeIds(edges')
              /\ \E v \in NewAnswerValues :
                   /\ KeyOf(v) = KeyOf(e.label)
                   /\ EdgeById(edges', e.id).label = v
                   /\ EdgeById(edges', e.id).sourcePort = KeyOf(v)]_vars

\* The answers of question_1 have just been edited to "sí", "S", "No" and its
\* edge labelled "Sí" survives under the label "sí".
C6_Witness ==
  /\ last.op = "answersBlur"
  /\ last.arg = "question_1"
  /\ "e1" \in EdgeIds(edges)
  /\ EdgeById(edges, "e1").label = "sí"
  /\ EdgeById(edges, "e1").sourcePort = "s"

\* C7: an answer-list edit of question node Q deletes exactly the outgoing
\* edges of Q whose label's normalized key is not among the new answers' keys;
\* the edges of other sources are neither deleted nor modified.
C7_ReconcileDeletesExactlyUnmatched ==
  [][AnswerEdit =>
       /\ EdgeIds(edges') \subseteq EdgeIds(edges)
       /\ EdgeIds(edges) \ EdgeIds(edges') =
            {e.id : e \in {o \in OutgoingOf(edges, properties.node) :
                             \A v \in NewAnswerValues : KeyOf(v) # KeyOf(o.label)}}
       /\ \A i \in 1..Len(edges) :
            edges[i].source # properties.node =>
              /\ edges[i].id \in EdgeIds(edges')
              /\ EdgeById(edges', edges[i].id) = edges[i]]_vars

\* The answers Sí/No of question_1 have just been edited to Sí/Tal vez: the
\* edge of "No" is gone, the edge of "Sí" and the edge of message_1 are kept.
C7_Witness ==
  /\ last = Done("answersBlur", "question_1", "- Sí\n- Tal vez")
  /\ EdgeIds(edges) = {"e1", "e4"}
  /\ EdgeById(edges, "e1").label = "Sí"
  /\ PortIds(ports["question_1"]) = {"s", "tal_vez"}

\* C8: addNode(type) issues the id type_n of no existing node, n being greater
\* than the counter of the type before the call (so greater than the number of
\* every id issued before) and the counter after it; a step adds a node only
\* so, and no step lowers a counter.
C8_FreshMonotoneIds ==
  [][/\ \A type \in NodeTypes : counters'[type] >= counters[type]
     /\ \A id \in DOMAIN nodes' \ DOMAIN nodes :
          /\ nodes'[id].type \in NodeTypes
          /\ id = NodeIdFor(nodes'[id].type, counters'[nodes'[id].type])
          /\ counters'[nodes'[id].type] > counters[nodes'[id].type]
     /\ last'.op = "addNode" =>
          /\ last'.arg \notin DOMAIN nodes
          /\ DOMAIN nodes' = DOMAIN nodes \cup {last'.arg}]_vars

\* question_3 has just been issued although question_2, issued before, has
\* been removed and is free.
C8_Witness ==
  /\ last = Done("addNode", "question_3", "question")
  /\ "question_2" \notin DOMAIN nodes
  /\ counters["question"] = 3

\* C9: every operation that changes the graph (the node map or the edge map)
\* leaves the dirty flag true.
C9_GraphChangeSetsDirty ==
  [][(nodes' # nodes \/ edges' # edges) => isDirty']_vars

\* The step is the acknowledgment of a save request.
SaveAcknowledged == \E i \in 1..Len(saves) : SaveOk(i)

\* C10: the dirty flag goes from true to false only by the acknowledgment of a
\* save request.
C10_OnlySaveClearsDirty ==
  [][(isDirty /\ ~isDirty') => SaveAcknowledged]_vars

\* C11: when a save request fails (response not ok, or request rejected) the
\* node map, the edge map and the dirty flag are what they were just before
\* the failure was reported.
C11_SaveFailureFrame ==
  [][(\E i \in 1..Len(saves) : SaveFail(i))
       => /\ nodes' = nodes
          /\ edges' = edges
          /\ isDirty' = isDirty]_vars

\* A save of an edited graph has failed and the graph is still dirty.
C11_Witness ==
  /\ last.op = "saveFlow"
  /\ last.outcome = "failed"
  /\ isDirty
  /\ saves = <<>>
  /\ ~acknowledged

\* The snapshot the page holds as saved: the payload of the last acknowledged
\* save, or the graph of the loaded flow when no save was acknowledged.
SavedSnapshot ==
  IF acknowledged THEN flowData
  ELSE LET loaded == initialise(flowData.nodes, flowData.edges)
       IN PayloadOf(loaded.nodes, loaded.edges)

\* C12: whenever the dirty flag is false, the snapshot of the graph in memory
\* is the snapshot of the last acknowledged save (of the loaded flow when there
\* was none), whatever edits ran while a save request was in flight.
C12_CleanMeansSaved == ~isDirty => buildPayload = SavedSnapshot

\* The gestures in progress: the node drags, the link gesture, the pan.
ActiveGestures ==
  Cardinality(drags) + (IF linking # <<>> THEN 1 ELSE 0) + (IF pan.isPanning THEN 1 ELSE 0)

\* C13: at every moment at most one gesture (node drag, link, pan) is in
\* progress; a press made while a gesture is in progress starts no other.
C13_OneGestureAtATime == ActiveGestures <= 1

\* C14: at most one link gesture is in progress: a link start made while one
\* is in progress cancels it first, so after any link start there is one
\* linking record, one temporary curve in the layer and one pair of link
\* handlers on the document, and never more than one of each.
C14_SingleLinkGesture ==
  [][/\ Len(linking') <= 1
     /\ tempCurves' <= 1
     /\ linkListeners' <= 1
     /\ last'.op = "beginLinking" =>
          /\ Len(linking') = 1
          /\ tempPath'
          /\ tempCurves' = 1
          /\ linkListeners' = 1]_vars

\* A link was started from the second port while the link of another pointer
\* was in progress.
C14_Witness ==
  /\ last.op = "beginLinking"
  /\ last.outcome = "restarted"
  /\ Len(linking) = 1
  /\ linkListeners = 1
  /\ tempCurves = 1

\* The step cancels the link gesture: Escape, a release away from every input
\* port, or a pointercancel.
LinkCancelled == KeyEscape \/ LinkPointerUpElsewhere \/ LinkPointerCancel

\* C15: cancelling a link gesture (Escape, release away from an input port,
\* pointercancel) leaves the edge map as the gesture found it: neither the start
\* of the gesture nor its cancellation changes an edge.
C15_CancelKeepsEdges ==
  [][(LinkCancelled \/ last'.op = "beginLinking") => edges' = edges]_vars

\* A link gesture over a graph with edges was cancelled by a pointercancel.
C15_Witness ==
  /\ last.op = "pointercancel"
  /\ last.outcome = "cancelled"
  /\ linking = <<>>
  /\ ~tempPath
  /\ Len(edges) = 2
  /\ ~isDirty

\* C16: when a node drag is ended by a pointercancel, the node is where it was
\* when the drag began.
C16_CancelRestoresPosition ==
  [][\A d \in drags :
       (/\ drags' = drags \ {d}
        /\ last'.op = "endDrag"
        /\ last'.outcome = "pointercancel"
        /\ d.nodeId \in DOMAIN nodes')
         => nodes'[d.nodeId].position = d.origin]_vars

\* The labels port P of node S can be said to carry: the label of a port of S
\* in the page whose id is P, and, when S shows no such port any more, the
\* label of the port the gesture began on.
PortLabels(link) ==
  LET shown == IF link.sourceId \in DOMAIN ports
               THEN {ports[link.sourceId][i].label :
                       i \in {j \in 1..Len(ports[link.sourceId]) :
                                ports[link.sourceId][j].id = link.sourcePort}}
               ELSE {}
  IN IF shown # {} THEN shown ELSE {link.sourceLabel}

\* The edge map after the step is the edge map before it plus one edge from
\* port P of S to the input port of targetId, labelled as port P.
OneEdgeAdded(link, targetId) ==
  /\ Len(edges') = Len(edges) + 1
  /\ SubSeq(edges', 1, Len(edges)) = edges
  /\ LET edge == edges'[Len(edges')]
     IN /\ edge.id \notin EdgeIds(edges)
        /\ edge.source = link.sourceId
        /\ edge.sourcePort = link.sourcePort
        /\ edge.target = targetId
        /\ edge.targetPort = "input"
        /\ edge.label \in PortLabels(link)

\* The link pointer is released over the input port of the live node targetId,
\* which is not the source, while no edge occupies the port of the gesture.
ReleaseOnFreePort(targetId) ==
  /\ LinkPointerUpOnInput(targetId)
  /\ targetId # linking[1].sourceId
  /\ \A i \in 1..Len(edges) :
       ~(edges[i].source = linking[1].sourceId /\ edges[i].sourcePort = linking[1].sourcePort)

\* C17 as stated: releasing the link pointer over the input port of a live
\* node T other than the source S, no edge occupying (S, P), adds exactly one
\* edge S.P -> T.input labelled as port P, changes no other edge and marks the
\* graph dirty.
C17_ReleaseAddsEdge ==
  [][\A targetId \in DOMAIN nodes :
       ReleaseOnFreePort(targetId)
         => OneEdgeAdded(linking[1], targetId) /\ isDirty']_vars

\* C17, amended: the same, provided the source node S is still in the graph
\* when the pointer is released.
C17_ReleaseAddsEdgeFromLiveSource ==
  [][\A targetId \in DOMAIN nodes :
       (ReleaseOnFreePort(targetId) /\ linking[1].sourceId \in DOMAIN nodes)
         => OneEdgeAdded(linking[1], targetId) /\ isDirty']_vars

\* A link from the free port "no" of the question was completed on message_3.
C17_Witness ==
  /\ last.op = "completeLinking"
  /\ last.outcome = "created"
  /\ last.arg = "message_3"
  /\ Len(edges) = 3
  /\ edges[3].source = "question_1"
  /\ edges[3].sourcePort = "no"
  /\ edges[3].label = "No"
  /\ isDirty

\* C18: a link gesture released over the input port of its own source node
\* adds no edge, shows no notice and leaves the graph and the dirty flag as
\* they were; hence no edge made by a link gesture joins a node to itself.
C18_SelfLinkIsNoOp ==
  [][/\ (linking # <<>> /\ LinkPointerUpOnInput(linking[1].sourceId))
          => /\ edges' = edges
             /\ nodes' = nodes
             /\ isDirty' = isDirty
             /\ LinkToast(last'.outcome) = ""
             /\ linking' = <<>>
     /\ last'.op = "completeLinking"
          => \A i \in 1..Len(edges') :
               edges'[i].id \notin EdgeIds(edges) => edges'[i].source # edges'[i].target]_vars

\* A link from the free port of the question was released on the question's
\* own input port.
C18_Witness ==
  /\ last.op = "completeLinking"
  /\ last.outcome = "self"
  /\ last.arg = "question_1"
  /\ linking = <<>>
  /\ Len(edges) = 2
  /\ ~isDirty

\* The logical coordinates of a screen point under the view v.
Logical(v, point) ==
  [x |-> RDiv(RSub(FromInt(point.x - DrawflowLeft), v.translateX), v.scale),
   y |-> RDiv(RSub(FromInt(point.y - DrawflowTop), v.translateY), v.scale)]

\* m is a grid point (a multiple of 10) nearest to the rational q.
Nearest10(q, m) ==
  /\ m % 10 = 0
  /\ Abs(q.n - m * q.d) <= 5 * q.d

\* C19: each pointer move of a node drag puts the node at
\* snap10(origin + (pointerLogical - startLogical)), the logical coordinates
\* taken under the current pan and scale; both coordinates are then multiples
\* of 10, and from an origin on the grid a logical displacement of (40, -20)
\* moves the node by exactly (40, -20) whatever the pan and the scale.
C19_DragMoveSnaps ==
  [][\A d \in drags, point \in DragPoints :
       DragPointerMove(d, point) =>
         LET delta == [x |-> RSub(Logical(view, point).x, d.start.x),
                       y |-> RSub(Logical(view, point).y, d.start.y)]
             position == nodes'[d.nodeId].position
         IN /\ Nearest10(RAdd(FromInt(d.origin.x), delta.x), position.x)
            /\ Nearest10(RAdd(FromInt(d.origin.y), delta.y), position.y)
            /\ isDirty'
            /\ (/\ d.origin.x % 10 = 0
                /\ d.origin.y % 10 = 0
                /\ delta = [x |-> FromInt(40), y |-> FromInt(-20)])
                 => position = [x |-> d.origin.x + 40, y |-> d.origin.y - 20]]_vars

\* Under the zoomed and panned view the question was dragged from (120, 80)
\* by 44 by -22 screen pixels, a logical (40, -20), and is at (160, 60).
C19_Witness ==
  /\ last.op = "dragMove"
  /\ last.arg = "question_1"
  /\ view.scale = Rat(11, 10)
  /\ view.translateX = FromInt(60)
  /\ \E d \in drags : d.nodeId = "question_1" /\ d.origin = [x |-> 120, y |-> 80]
  /\ nodes["question_1"].position = [x |-> 160, y |-> 60]
  /\ isDirty

\* C20: a pan move and a zoom change the view only: the nodes and their
\* positions, the edges, the id counters, the selection and the dirty flag stay
\* as they were.
C20_PanZoomChangeOnlyView ==
  [][((\E point \in DragPoints : PanPointerMove(point))
        \/ (\E point \in DragPoints, zoomIn \in BOOLEAN : Wheel(point, zoomIn)))
       => /\ nodes' = nodes
          /\ edges' = edges
          /\ counters' = counters
          /\ selectedNodeId' = selectedNodeId
          /\ selectedEdgeId' = selectedEdgeId
          /\ isDirty' = isDirty]_vars

\* The canvas over the flow of two nodes was panned: the view moved, the graph
\* is the loaded one and is not dirty.
C20_Witness ==
  /\ last.op = "panMove"
  /\ view.translateX # FromInt(0)
  /\ view.translateX # FromInt(60)
  /\ DOMAIN nodes = {"question_1", "message_3"}
  /\ Len(edges) = 1
  /\ ~isDirty

\* C21: in every reachable state the scale of the view lies in the closed
\* interval [0.3, 1.8], whatever zooms in and out were made.
C21_ScaleWithinBounds ==
  /\ ~RLess(view.scale, MinScale)
  /\ ~RLess(MaxScale, view.scale)

\* A zoom out was made at the lower bound: the scale is 0.3 again.
C21_Witness ==
  /\ last.op = "wheel"
  /\ last.outcome = "out"
  /\ view.scale = MinScale

\* C22: a zoom with the pointer at the screen point p leaves the logical point
\* under p where it was on the screen: the point that was under p before the
\* zoom is shown at p after it, also when the new scale was clamped.
C22_ZoomKeepsPointUnderPointer ==
  [][\A point \in DragPoints, zoomIn \in BOOLEAN :
       Wheel(point, zoomIn) =>
         toScreen(view', toWorkspace(view, point.x, point.y))
           = [x |-> FromInt(point.x), y |-> FromInt(point.y)]]_vars

\* A zoom in was made at the upper bound with the pointer away from the
\* corner of the canvas: the scale is 1.8 again.
C22_Witness ==
  /\ last.op = "wheel"
  /\ last.outcome = "in"
  /\ view.scale = MaxScale
  /\ view.translateX = FromInt(0)
  /\ view.translateY = FromInt(0)

\* Logical points: corners of the grid and a point off it.
LogicalPoints ==
  {[x |-> FromInt(px), y |-> FromInt(py)] : px \in {-40, 0, 120}, py \in {80}}
    \cup {[x |-> Rat(7, 3), y |-> Rat(-15, 2)]}

\* C23: toLogical is the inverse of the screen mapping
\* screen = origin + translate + scale * p: under every view the page reaches,
\* toLogical(toScreen(p)) = p, and toLogical of an integer screen point is
\* ((screenX - originX - translateX) / scale, the same for y), the value
\* toWorkspace computes.
C23_ToLogicalInvertsToScreen ==
  /\ \A p \in LogicalPoints : toLogical(view, toScreen(view, p)) = p
  /\ \A point \in DragPoints :
       toLogical(view, [x |-> FromInt(point.x), y |-> FromInt(point.y)])
         = toWorkspace(view, point.x, point.y)

\* The view is zoomed and panned: neither the scale nor the translation is the
\* neutral one.
C23_Witness ==
  /\ view.scale # FromInt(1)
  /\ view.translateX # FromInt(0)
  /\ view.translateY # FromInt(0)
  /\ last.op = "panMove"

\* At most one of the node selection and the edge selection is set.
AtMostOneSelected == selectedNodeId = Null \/ selectedEdgeId = Null

\* C24: in every reachable state at most one of selectedNodeId and
\* selectedEdgeId is set: a step that selects a node leaves no edge selected
\* and a step that selects an edge leaves no node selected.
C24_AtMostOneSelection ==
  /\ AtMostOneSelected
  /\ [][/\ AtMostOneSelected'
        /\ (selectedNodeId' # Null /\ selectedNodeId' # selectedNodeId)
             => selectedEdgeId' = Null
        /\ (selectedEdgeId' # Null /\ selectedEdgeId' # selectedEdgeId)
             => selectedNodeId' = Null]_vars

\* An edge was selected while the form of a node was open: the edge is the
\* selection, no node is, and the panel still shows the form.
C24_Witness ==
  /\ last.op = "selectEdge"
  /\ selectedEdgeId # Null
  /\ selectedNodeId = Null
  /\ properties # DefaultProperties

\* C25: the output port ids a port refresh gives one node are pairwise
\* distinct, also when two answers of a question, or two outgoing edges of a
\* message, give the same normalized key: the later one carries a suffix.
C25_PortIdsDistinct ==
  \A id \in DOMAIN ports : Cardinality(PortIds(ports[id])) = Len(ports[id])

\* The first message was loaded with two edges of the key "fin" and the
\* question was given the answers "sí" and "S", both of the key "s": each node
\* shows the key and the key with the suffix 2.
C25_Witness ==
  /\ {"message_1", "question_1"} \subseteq DOMAIN ports
  /\ {"fin", "fin_2"} \subseteq PortIds(ports["message_1"])
  /\ {"s", "s_2"} \subseteq PortIds(ports["question_1"])
  /\ Len(nodes["question_1"].expected_answers) = 3

\* The port id is the key, or the key followed by suffixes.
KeyedBy(portId, key) ==
  Len(portId) >= Len(key) /\ SubSeq(portId, 1, Len(key)) = key

\* C26: the output ports of a question node are its expected answers, one for
\* one and in order, each labelled with the answer and keyed by its normalized
\* form; a question of no answers has exactly one fallback port.
C26_QuestionPortsFollowAnswers ==
  \A id \in DOMAIN nodes :
    nodes[id].type = "question" =>
      LET answers == nodes[id].expected_answers
      IN /\ id \in DOMAIN ports
         /\ IF answers = <<>>
            THEN ports[id] = <<[id |-> "salida", label |-> "Salida"]>>
            ELSE /\ Len(ports[id]) = Len(answers)
                 /\ \A i \in 1..Len(answers) :
                      /\ ports[id][i].label = answers[i].value
                      /\ KeyedBy(ports[id][i].id, portKeyFromLabel(answers[i].value))

\* The answers of the question were emptied: it shows the fallback port.
C26_Witness ==
  /\ last.op = "answersBlur"
  /\ "question_1" \in DOMAIN nodes
  /\ nodes["question_1"].expected_answers = <<>>
  /\ Len(ports["question_1"]) = 1

\* C27: after every operation each message node shows as many output ports as
\* it has outgoing edges, so the removal of one of its edges is seen in its
\* ports at once.
C27_MessagePortsFollowEdges ==
  \A id \in DOMAIN nodes :
    nodes[id].type # "question" =>
      /\ id \in DOMAIN ports
      /\ Len(ports[id]) = Len(getOutgoingEdges(edges, id))

\* The first message, loaded with two edges of the key "fin", was linked from
\* its port "fin_2", which no edge names, and one of its loaded edges was then
\* removed: it has two edges and shows two ports.
C27_Witness ==
  /\ last.op = "removeEdge"
  /\ last.outcome = "removed"
  /\ last.arg = "e4"
  /\ "message_1" \in DOMAIN nodes
  /\ Len(getOutgoingEdges(edges, "message_1")) = 2
  /\ \E i \in 1..Len(edges) : edges[i].source = "message_1" /\ edges[i].id \notin {"e4", "e7"}
  /\ Len(ports["message_1"]) = 2

\* A step in which saveFlow, validateFlow or exportYaml builds its snapshot.
SnapshotBuilt ==
  \/ last'.op \in {"validateFlow", "exportYaml"}
  \/ last'.op = "saveFlow" /\ last'.outcome = "sent"

\* C28: in the snapshot built for save, validate and export a node of empty
\* metadata has no metadata field, a node of empty appearance has no appearance
\* field, and every edge has source_port and target_port equal to the port ids
\* the edge holds.
C28_SnapshotOmitsEmptyFields ==
  [][SnapshotBuilt =>
       LET payload == buildPayload
       IN /\ \A id \in DOMAIN nodes :
               /\ KeyCount(nodes[id].metadata) = 0
                    => "metadata" \notin DOMAIN payload.nodes[id]
               /\ KeyCount(nodes[id].appearance) = 0
                    => "appearance" \notin DOMAIN payload.nodes[id]
          /\ Len(payload.edges) = Len(edges)
          /\ \A i \in 1..Len(edges) :
               /\ payload.edges[i].source_port = edges[i].sourcePort
               /\ payload.edges[i].target_port = edges[i].targetPort]_vars

\* C29: a validation and an export, whether the request succeeds or fails,
\* leave the nodes, the edges and the dirty flag as they were.
C29_ValidateExportReadOnly ==
  [][(\E op \in {"validateFlow", "exportYaml"}, ok \in BOOLEAN : CollaboratorCall(op, ok))
       => /\ nodes' = nodes
          /\ edges' = edges
          /\ isDirty' = isDirty]_vars

\* The graph was edited and then exported with success: it is still dirty.
C29_Witness ==
  /\ last = Done("exportYaml", Null, "ok")
  /\ isDirty
  /\ \E id \in DOMAIN nodes : nodes[id].title = " Alta   prioridad "

\* The step is a pointermove, pointerup or pointercancel of the pointer q.
MoveOrEndOfPointer(q) ==
  \/ \E d \in drags, point \in DragPoints : d.pointerId = q /\ DragPointerMove(d, point)
  \/ \E d \in drags, kind \in {"pointerup", "pointercancel"} :
       d.pointerId = q /\ DragPointerEnd(d, kind)
  \/ /\ pan.isPanning /\ pan.pointerId = q
     /\ \/ \E point \in DragPoints : PanPointerMove(point)
        \/ \E kind \in {"pointerup", "pointercancel"} : PanPointerEnd(kind)
  \/ /\ linking # <<>> /\ linking[1].pointerId = q
     /\ \/ \E targetId \in DOMAIN nodes : LinkPointerUpOnInput(targetId)
        \/ LinkPointerUpElsewhere
        \/ LinkPointerCancel
  \/ \E kind \in {"pointermove", "pointerup", "pointercancel"} : ForeignPointerEvent(q, kind)

\* The gestures of the pointer p go on and what they have done stays: the
\* dragged node is where it was, the view is where the pan put it, the link
\* and its temporary curve are as they were.
GesturesOfPointerKept(p) ==
  /\ \A d \in drags :
       d.pointerId = p =>
         /\ d \in drags'
         /\ nodes'[d.nodeId].position = nodes[d.nodeId].position
  /\ (pan.isPanning /\ pan.pointerId = p) => (pan' = pan /\ view' = view)
  /\ (linking # <<>> /\ linking[1].pointerId = p)
       => (linking' = linking /\ tempPath' = tempPath /\ tempCurves' = tempCurves
             /\ linkListeners' = linkListeners)

\* C30: while a drag, a link or a pan of the pointer p is in progress, a move,
\* a release or a cancel of another pointer neither changes what the gesture
\* has done (the position of the node, the translation of the view, the
\* temporary link) nor ends the gesture.  The steps taken are those that are
\* an event of the pointer q and cannot be read as an event of p.
C30_OtherPointersLeaveGesture ==
  [][\A p \in PointerIds, q \in PointerIds :
       (p # q /\ MoveOrEndOfPointer(q) /\ ~MoveOrEndOfPointer(p))
         => GesturesOfPointerKept(p)]_vars

\* The clicks that have a navigation pending or that the page left by.
NavigatingClicks ==
  navigation.pending \cup {navigation.left[i] : i \in 1..Len(navigation.left)}

\* A click on a guarded control made while the editor reports dirty and
\* answered with a refusal leaves no navigation of that control behind.
DeclinedClickStays ==
  /\ \A button \in FlowButtons :
       (isDirty /\ FlowSelectClick(button, FALSE))
         => /\ \A c \in navigation'.pending : c.control # button
            /\ navigation'.left = <<>>
  /\ \A element \in EnsureCleanElements, leave \in BOOLEAN :
       (isDirty /\ EnsureCleanClick(element, FALSE, leave)) => navigation' = navigation

\* A click on a guarded control made while the editor is not dirty shows no
\* prompt and navigates: the timer of the button is set, the page of the other
\* element is left.
CleanClickNavigates ==
  /\ \A button \in FlowButtons, confirmed \in BOOLEAN :
       (~isDirty /\ FlowSelectClick(button, confirmed))
         => /\ last'.outcome = "no prompt"
            /\ Click(button, FALSE, FALSE) \in navigation'.pending
  /\ \A element \in EnsureCleanElements, confirmed \in BOOLEAN, leave \in BOOLEAN :
       (~isDirty /\ EnsureCleanClick(element, confirmed, leave))
         => /\ last'.outcome = "no prompt"
            /\ navigation'.left = <<Click(element, FALSE, FALSE)>>

\* C31: a click on a guarded navigation control (a flow-select button or a
\* data-ensure-clean element) made while the editor reports dirty leads to a
\* navigation only when the discard prompt was confirmed; a click made while the
\* editor is not dirty shows no prompt and navigates.
C31_GuardedNavigation ==
  /\ \A c \in NavigatingClicks : c.prompted => c.confirmed
  /\ [][DeclinedClickStays /\ CleanClickNavigates]_vars

\* A click on a flow-select button of a dirty editor has just been declined and
\* no navigation is pending.
C31_Witness ==
  /\ last.op = "flowSelect"
  /\ last.outcome = "declined"
  /\ isDirty
  /\ NavigatingClicks = {}

\* An Escape key press, or a pointercancel of the pointer of the link gesture.
EscapeOrLinkCancel ==
  \/ KeyEscape
  \/ KeyInTextField("Escape")
  \/ LinkPointerCancel
  \/ LinkPointerCancelOutside

\* C32: whenever a link gesture is active, an Escape key press or a
\* pointercancel of the pointer of the gesture ends it: afterwards
\* state.linking is null and no temporary curve exists.
C32_EscapeOrCancelEndsLink ==
  [][(linking # <<>> /\ EscapeOrLinkCancel)
       => (linking' = <<>> /\ ~tempPath' /\ tempD' = <<>>)]_vars

\* The canonical texts of the current answers of a question node.
AnswerValues(node) ==
  LET answers == coerceExpectedAnswers(node.expected_answers)
  IN {answers[i].value : i \in 1..Len(answers)}

\* C33: every outgoing edge of a question node has a label equal to the
\* canonical text of one of the current answers of the node and a sourcePort
\* equal to the normalized key of that label.
C33_QuestionEdgesMatchAnswers ==
  \A i \in 1..Len(edges) :
    (edges[i].source \in DOMAIN nodes /\ nodes[edges[i].source].type = "question")
      => /\ edges[i].label \in AnswerValues(nodes[edges[i].source])
         /\ edges[i].sourcePort = KeyOf(edges[i].label)

\* The texts of the metadata field that JSON.parse rejects.
MalformedTexts == {text \in MetadataTexts : Trim(text) # "" /\ JsonParse(Trim(text)) = <<>>}

\* C34: a blur of the metadata field that holds malformed JSON rejects the
\* edit: the node map (the metadata of the node and every other field), the
\* edge map and the dirty flag stay as they were, and the field is marked as in
\* error.
C34_MalformedMetadataRejected ==
  [][(\E text \in MalformedTexts : MetadataBlur(text))
       => /\ nodes' = nodes
          /\ edges' = edges
          /\ isDirty' = isDirty
          /\ properties'.metadataError]_vars

\* Malformed JSON has just been rejected on a node that holds parsed metadata
\* and unsaved edits.
C34_Witness ==
  /\ last.op = "metadataBlur"
  /\ last.outcome = "rejected"
  /\ properties.metadataError
  /\ isDirty
  /\ nodes[last.arg].metadata = ("owner" :> "ana")

\* max(60, |dy|) and the direction of dy, downward when dy = 0.
VerticalShift(dy) == RMul(IF RLess(dy, FromInt(0)) THEN FromInt(-1) ELSE FromInt(1),
                          RMax(FromInt(60), RAbs(dy)))

\* The control points of the path p are those stated: for a target to the
\* right of the source or level with it, (source.x + h, source.y) and
\* (target.x - h, target.y) with h = max(0.45 |dx|, 80); for a target to the
\* left, the horizontal offset max(120, 0.6 |dx|), the first control point
\* displaced vertically by max(60, |dy|) in the direction of dy and the second
\* one by as much in the direction of dy times c2Sign.
PathAsStated(p, c2Sign) ==
  LET dx == RSub(p.target.x, p.source.x)
      dy == RSub(p.target.y, p.source.y)
      h == RMax(RMul(Rat(9, 20), RAbs(dx)), FromInt(80))
      e == RMax(FromInt(120), RMul(Rat(3, 5), RAbs(dx)))
  IN IF ~RLess(p.target.x, p.source.x)
     THEN /\ p.c1 = [x |-> RAdd(p.source.x, h), y |-> p.source.y]
          /\ p.c2 = [x |-> RSub(p.target.x, h), y |-> p.target.y]
     ELSE /\ p.c1 = [x |-> RAdd(p.source.x, e), y |-> RAdd(p.source.y, VerticalShift(dy))]
          /\ p.c2 = [x |-> RSub(p.target.x, e),
                     y |-> RAdd(p.target.y, RMul(FromInt(c2Sign), VerticalShift(dy)))]

\* Both control points are displaced in the direction of dy.
C35_BothDisplacedAlongDy == tempD # <<>> => PathAsStated(tempD[1], 1)

\* C35: computeConnectionPath(source, target): when target.x >= source.x the
\* control points are (source.x + h, source.y) and (target.x - h, target.y)
\* with h = max(0.45 |dx|, 80); when target.x < source.x the horizontal offset
\* is max(120, 0.6 |dx|), the first control point is displaced vertically by
\* max(60, |dy|) in the direction of dy (downward when dy = 0) and the second
\* one by as much in the opposite direction.
C35_PathControlPoints == tempD # <<>> => PathAsStated(tempD[1], -1)

\* The pointer of a link gesture has moved to the left of the port and above it.
C35_Witness ==
  /\ last.op = "updateTempLink"
  /\ tempD # <<>>
  /\ RLess(tempD[1].target.x, tempD[1].source.x)
  /\ RLess(tempD[1].target.y, tempD[1].source.y)

\* The message nodes that no edge leaves.
PortlessMessages(N, E) ==
  {id \in DOMAIN N : N[id].type = "message" /\ OutgoingOf(E, id) = {}}

\* C36: a message node with no outgoing edges has no output port, and it does
\* not become the source of an edge through any operation of the editor.
C36_PortlessMessageNeverSource ==
  /\ \A id \in PortlessMessages(nodes, edges) : ports[id] = <<>>
  /\ [][\A id \in PortlessMessages(nodes, edges) :
          id \in DOMAIN nodes' => OutgoingOf(edges', id) = {}]_vars

\* The question nodes of N whose list of expected answers is empty.
QuestionsWithoutAnswers(N) ==
  {id \in DOMAIN N : /\ N[id].type = "question"
                     /\ coerceExpectedAnswers(N[id].expected_answers) = <<>>}

\* C37: the reconciliation of a question node whose list of expected answers
\* is empty (the one the blur of the answers field runs) deletes every outgoing
\* edge of the node, an edge linked from the fallback port "salida" included.
C37_NoAnswersNoEdges ==
  [][last'.op = "answersBlur"
       => \A id \in QuestionsWithoutAnswers(nodes') \cap {last'.arg} :
            OutgoingOf(edges', id) = {}]_vars

\* The answers of question_1 have just been emptied again and its form still
\* shows the row of the edge that was linked from the port "salida" and is no
\* longer in the graph.
C37_Witness ==
  /\ last.op = "answersBlur"
  /\ properties.node \in QuestionsWithoutAnswers(nodes)
  /\ ports[properties.node] = <<[id |-> "salida", label |-> "Salida"]>>
  /\ properties.edges = {"edge_1"}
  /\ OutgoingOf(edges, properties.node) = {}

\* C38: whenever selectedNodeId or selectedEdgeId is not null it identifies a
\* node or an edge that is in the graph.
C38_SelectionInGraph ==
  /\ selectedNodeId # Null => selectedNodeId \in DOMAIN nodes
  /\ selectedEdgeId # Null => selectedEdgeId \in EdgeIds(edges)

\* A release of the pointer of the link gesture, over an input port or
\* anywhere else.
LinkRelease ==
  \/ \E targetId \in DOMAIN nodes : LinkPointerUpOnInput(targetId)
  \/ LinkPointerUpElsewhere

\* C39: when the source node of a link gesture in progress has been removed,
\* or its intended target has (the release then finds no input port of it), the
\* release adds no edge from or to a removed node and ends the gesture with
\* state.linking null: the edge map stays as it was when the source is gone.
C39_ReleaseAfterRemoval ==
  [][(linking # <<>> /\ LinkRelease)
       => /\ linking' = <<>>
          /\ linking[1].sourceId \notin DOMAIN nodes => edges' = edges
          /\ \A i \in 1..Len(edges') :
               edges'[i].source \in DOMAIN nodes' /\ edges'[i].target \in DOMAIN nodes']_vars

\* The gesture whose source node was removed has just been released over the
\* input port of a node: nothing was added and the gesture is over.
C39_Witness ==
  /\ last.op = "completeLinking"
  /\ last.outcome = "missing"
  /\ linking = <<>>
  /\ ~tempPath

\* C40: immediately after the load (initialise) the dirty flag is false, also
\* when the reconciliation of the load deleted edges of the loaded flow.
C40_CleanAfterLoad == last.op = "initialise" => ~isDirty

\* The page has just loaded a flow whose edge e3 the reconciliation deleted.
C40_Witness ==
  /\ last.op = "initialise"
  /\ ~isDirty
  /\ "e3" \in SeqIds(flowData.edges)
  /\ "e3" \notin EdgeIds(edges)

====
